---- MODULE Spec2Model ----
(***************************************************************************)
(* A model of the DebugAgent core: HybridRetriever (search, merge_and_rerank, *)
(* retrieve), Preprocessor.process and StackParser.parse.                  *)
(*                                                                         *)
(* Text is a sequence of characters.  A score is an integer number of      *)
(* hundredths (100 is the similarity 1.0) and a weight an integer number   *)
(* of tenths (3 is 0.3), so that score * weight is computed exactly.       *)
(***************************************************************************)
EXTENDS Integers, Sequences, FiniteSets, TLC

VARIABLES
    pc,        \* position of the call being modelled
    weights_arg, \* the weights argument of the constructor, None when not given
    weights,   \* HybridRetriever.weights: the table the retriever uses
    heap,      \* the RetrievalResult objects, by reference
    raw,       \* the objects as they were when merge_and_rerank was called
    results,   \* the mapping source -> list of references, in insertion order
    top_k,     \* the top_k argument
    merged,    \* the list merge_and_rerank returned
    entry,     \* the method called: "search", "retrieve" or "merge_and_rerank"
    enable,    \* the enable_code, enable_case, enable_log_pattern flags
    index,     \* per channel: whether its search raises, and what its index holds
    task_sources, \* the sources of the tasks, in the order they were appended
    task_state,   \* per task: "created", "running" or "done"
    task_result,  \* per task: the list it returned, or the exception it raised
    finished,     \* the tasks in the order they completed
    gathered,     \* what asyncio.gather returned
    search_args,  \* the query, error_message and stack_trace given to search
    task_call,    \* per task: the query and top_k its channel was called with
    stack_trace,  \* the text given to StackParser.parse, as its lines
    parsed,       \* the ParsedStackTrace that parse returned
    bug_input,    \* the dict given to Preprocessor.process
    processed,    \* what process returned, or the exception it raised
    logs,         \* the logs argument of a LogAggregator method
    trace_id,     \* the trace_id argument of aggregate_by_trace
    log_result,   \* the list the LogAggregator method returned
    input_text,   \* the text given to EntityExtractor.extract
    entities,     \* the dict extract returned
    search_queries, \* per run of the service: the query built, or the exception raised
    analyzer,     \* the model and temperature the LLMAnalyzer was constructed with
    analyze_args, \* what analyze reads of its arguments to build the prompt
    llm_calls,    \* the calls of chat.completions.create, in order, with their outcome
    analysis      \* what analyze returned, or the exception it raised

retrieverVars == <<weights_arg, weights, heap, raw, results, top_k, merged>>
searchVars == <<entry, enable, index, task_sources, task_state, task_result,
                finished, gathered, search_args, task_call>>
logVars == <<logs, trace_id, log_result>>
entityVars == <<input_text, entities>>
pureVars == <<logVars, entityVars>>
preVars == <<stack_trace, parsed, bug_input, processed, pureVars>>
analyzerVars == <<analyzer, analyze_args, llm_calls, analysis>>
serviceVars == <<search_queries, analyzerVars>>
vars == <<pc, retrieverVars, searchVars, preVars, serviceVars>>

----------------------------------------------------------------------------
(* Bounds of the model *)

MaxItems == 2
MaxTopK == 2
MaxLines == 3
MaxLogs == 2
MaxFrags == 2

----------------------------------------------------------------------------
(* Text helpers *)

Min(a, b) == IF a <= b THEN a ELSE b
Max(a, b) == IF a >= b THEN a ELSE b

\* Python's s[:n] for any integer n
SliceTo(s, n) ==
    IF n >= 0 THEN SubSeq(s, 1, Min(n, Len(s)))
    ELSE SubSeq(s, 1, Max(Len(s) + n, 0))

Range(s) == {s[i] : i \in 1..Len(s)}

\* s contains p as a contiguous run of characters
Contains(s, p) ==
    \E i \in 0..(Len(s) - Len(p)) : SubSeq(s, i + 1, i + Len(p)) = p

EndsWith(s, p) ==
    Len(s) >= Len(p) /\ SubSeq(s, Len(s) - Len(p) + 1, Len(s)) = p

UpperCase == <<"A", "B", "C", "D", "E", "F", "G", "H", "I", "J", "K", "L", "M", "N", "O", "P", "Q", "R", "S", "T", "U", "V", "W", "X", "Y", "Z">>
LowerCase == <<"a", "b", "c", "d", "e", "f", "g", "h", "i", "j", "k", "l", "m", "n", "o", "p", "q", "r", "s", "t", "u", "v", "w", "x", "y", "z">>
DigitChars == <<"0", "1", "2", "3", "4", "5", "6", "7", "8", "9">>

IsDigit(ch) == ch \in Range(DigitChars)
\* \w
IsWordChar(ch) ==
    ch \in Range(UpperCase) \cup Range(LowerCase) \cup Range(DigitChars) \cup {"_"}

LowerChar(ch) ==
    IF ch \in Range(UpperCase)
    THEN LowerCase[CHOOSE i \in 1..Len(UpperCase) : UpperCase[i] = ch]
    ELSE ch
Lower(s) == [i \in 1..Len(s) |-> LowerChar(s[i])]

\* Optional values of a dict: the key is missing, its value is None, or a value
Missing == [tag |-> "missing", val |-> <<>>]
None == [tag |-> "none", val |-> <<>>]
Some(v) == [tag |-> "value", val |-> v]

\* d.get(key, default)
Get(field, default) == IF field.tag = "missing" THEN Some(default) ELSE field

\* the truth value Python gives a str, a list or None
Truthy(field) == field.tag = "value" /\ field.val # <<>>

\* the state of the parts a specification does not exercise
NoSearchArgs == [query |-> <<>>, error_message |-> None, stack_trace |-> None]
NoParse == [exception_type |-> <<>>, exception_message |-> <<>>,
            frames |-> <<>>, root_frame |-> 0]
NoResult == [raised |-> "not called", parsed_stack |-> None,
             business_frames |-> <<>>, entities |-> <<>>,
             error_keywords |-> <<>>, aggregated_logs |-> <<>>,
             text_to_analyze |-> <<>>]
NoBugInput == [error_message |-> Missing, stack_trace |-> Missing,
               trace_id |-> Missing, context |-> Missing,
               user_description |-> Missing, related_logs |-> Missing]
IdleLogs ==
    /\ logs = <<>>
    /\ trace_id = None
    /\ log_result = <<>>
IdleEntities ==
    /\ input_text = <<>>
    /\ entities = <<>>
IdlePure == IdleLogs /\ IdleEntities
NoAnalysis == [raised |-> "not called", result |-> "none"]
IdleAnalyzer ==
    /\ analyzer = [model |-> "none", temperature |-> 0]
    /\ analyze_args = [parsed_stack |-> None, error_message |-> Missing]
    /\ llm_calls = <<>>
    /\ analysis = NoAnalysis
IdleService == search_queries = <<>> /\ IdleAnalyzer
IdlePreprocessor ==
    /\ IdlePure
    /\ stack_trace = <<>>
    /\ parsed = NoParse
    /\ bug_input = NoBugInput
    /\ processed = NoResult

----------------------------------------------------------------------------
(* RetrievalResult objects *)

KeyLen == 100
WeightDen == 10
DefaultWeight == 1

Sources == {"code", "case", "log_pattern"}

LongPrefix == [i \in 1..KeyLen |-> "a"]

\* Contents: empty, short, and two that differ only after KeyLen characters
NoContent == <<>>
ShortContent == <<"x">>
LongContentP == LongPrefix \o <<"p">>
LongContentQ == LongPrefix \o <<"q">>

IdX == <<"x">>
IdY == <<"y">>

\* The (id, content, metadata) of the items the channels can hold
ItemKinds ==
    { [id |-> IdX, content |-> NoContent,    metadata |-> "m1"],
      [id |-> IdY, content |-> NoContent,    metadata |-> "m2"],
      [id |-> IdY, content |-> ShortContent, metadata |-> "m3"],
      [id |-> IdX, content |-> LongContentP, metadata |-> "m4"],
      [id |-> IdY, content |-> LongContentQ, metadata |-> "m5"] }

\* Raw similarity scores, in hundredths
RawScores == {60, 100}

RetrievalResult(src, kind, s) ==
    [source |-> src, id |-> kind.id, content |-> kind.content,
     score |-> s, metadata |-> kind.metadata]

\* The weight tables a retriever is constructed with, in tenths
DefaultWeights == [c \in Sources |->
    CASE c = "code" -> 3 [] c = "case" -> 5 [] c = "log_pattern" -> 2]
UnitWeights == [c \in Sources |-> WeightDen]

\* a table without the case and log_pattern entries, and one with a weight 2.0
CodeOnlyWeights == [c \in {"code"} |-> WeightDen]
HeavyWeights == [c \in Sources |->
    CASE c = "code" -> 20 [] c = "case" -> 5 [] c = "log_pattern" -> 2]

\* the weights argument of the constructor: not given, or a dict
WeightArgs ==
    {None, Some(<<>>), Some(UnitWeights), Some(CodeOnlyWeights), Some(HeavyWeights)}

\* __init__: self.weights = weights or {"code": 0.3, "case": 0.5, "log_pattern": 0.2}
InitWeights(arg) == IF Truthy(arg) THEN arg.val ELSE DefaultWeights

\* mutant: a missing entry takes the weight of the default table
WeightOfTableDefault(w, src) == IF src \in DOMAIN w THEN w[src] ELSE DefaultWeights[src]

\* self.weights.get(source, 0.1)
WeightOf(w, src) == IF src \in DOMAIN w THEN w[src] ELSE DefaultWeight

\* item.score * weight
WeightedScore(s, w) == (s * w) \div WeightDen

\* mutant: the key is the whole content, the [:100] forgotten
DedupKeyWholeContent(item) ==
    IF item.content # <<>> THEN item.content ELSE item.id

\* item.content[:100] if item.content else item.id
DedupKey(item) ==
    IF item.content # <<>> THEN SliceTo(item.content, KeyLen) ELSE item.id

----------------------------------------------------------------------------
(* merge_and_rerank *)

\* scored_results: the (weighted_score, item) pairs of one channel's list
RECURSIVE ScoreItems(_, _, _)
ScoreItems(h, items, w) ==
    IF items = <<>> THEN <<>>
    ELSE <<[w |-> WeightedScore(h[Head(items)].score, w), ref |-> Head(items)]>>
         \o ScoreItems(h, Tail(items), w)

\* the loop over results.items(): the channels in the mapping's order
RECURSIVE Flatten(_, _, _)
Flatten(h, wt, res) ==
    IF res = <<>> THEN <<>>
    ELSE ScoreItems(h, Head(res).items, WeightOf(wt, Head(res).source))
         \o Flatten(h, wt, Tail(res))

\* mutant: x goes before the elements of equal score, so ties are reversed
RECURSIVE InsertDescUnstable(_, _)
InsertDescUnstable(sorted, x) ==
    IF sorted = <<>> THEN <<x>>
    ELSE IF Head(sorted).w > x.w
         THEN <<Head(sorted)>> \o InsertDescUnstable(Tail(sorted), x)
         ELSE <<x>> \o sorted

\* list.sort(key=weighted_score, reverse=True): stable, descending.
\* x goes after every element whose score is >= its own.
RECURSIVE InsertDesc(_, _)
InsertDesc(sorted, x) ==
    IF sorted = <<>> THEN <<x>>
    ELSE IF Head(sorted).w >= x.w
         THEN <<Head(sorted)>> \o InsertDesc(Tail(sorted), x)
         ELSE <<x>> \o sorted

RECURSIVE SortDescFrom(_, _)
SortDescFrom(acc, s) ==
    IF s = <<>> THEN acc ELSE SortDescFrom(InsertDesc(acc, Head(s)), Tail(s))

\* mutant: reverse=True forgotten, the sort is ascending
RECURSIVE InsertAsc(_, _)
InsertAsc(sorted, x) ==
    IF sorted = <<>> THEN <<x>>
    ELSE IF Head(sorted).w <= x.w
         THEN <<Head(sorted)>> \o InsertAsc(Tail(sorted), x)
         ELSE <<x>> \o sorted

RECURSIVE SortAscFrom(_, _)
SortAscFrom(acc, s) ==
    IF s = <<>> THEN acc ELSE SortAscFrom(InsertAsc(acc, Head(s)), Tail(s))

SortAscending(s) == SortAscFrom(<<>>, s)

SortDesc(s) == SortDescFrom(<<>>, s)

\* mutant: the last occurrence of a key is kept, not the first
RECURSIVE DedupKeepLast(_, _, _)
DedupKeepLast(h, scored, seen) ==
    IF scored = <<>> THEN <<>>
    ELSE LET key == DedupKey(h[Head(scored).ref])
             later == {DedupKey(h[Tail(scored)[i].ref]) : i \in 1..(Len(scored) - 1)}
         IN  IF key \notin later
             THEN <<Head(scored)>> \o DedupKeepLast(h, Tail(scored), seen)
             ELSE DedupKeepLast(h, Tail(scored), seen)

\* the deduplication loop: the pairs kept, in order
RECURSIVE Dedup(_, _, _)
Dedup(h, scored, seen) ==
    IF scored = <<>> THEN <<>>
    ELSE LET key == DedupKey(h[Head(scored).ref])
         IN  IF key \notin seen
             THEN <<Head(scored)>> \o Dedup(h, Tail(scored), seen \cup {key})
             ELSE Dedup(h, Tail(scored), seen)

\* mutant: the sort is forgotten, the pairs stay in the order of the mapping
RankedUnsorted(h, wt, res) == Flatten(h, wt, res)

Ranked(h, wt, res) == SortDesc(Flatten(h, wt, res))

UniqueResults(h, wt, res) == Dedup(h, Ranked(h, wt, res), {})

\* mutant: the weighted score is written to the items returned only
HeapWriteReturnedOnly(h, wt, res) ==
    LET uniq == SliceTo(UniqueResults(h, wt, res), top_k)
    IN  [r \in DOMAIN h |->
            IF \E i \in 1..Len(uniq) : uniq[i].ref = r
            THEN [h[r] EXCEPT !.score =
                    (CHOOSE p \in Range(uniq) : p.ref = r).w]
            ELSE h[r]]

\* mutant: the weighted score is not written back to the item
HeapNoWriteBack(h, wt, res) == h

\* item.score = score, for the items kept
HeapAfterMerge(h, wt, res) ==
    LET uniq == UniqueResults(h, wt, res)
    IN  [r \in DOMAIN h |->
            IF \E i \in 1..Len(uniq) : uniq[i].ref = r
            THEN [h[r] EXCEPT !.score =
                    (CHOOSE p \in Range(uniq) : p.ref = r).w]
            ELSE h[r]]

\* unique_results[:top_k]
MergedRefs(h, wt, res, k) ==
    LET uniq == UniqueResults(h, wt, res)
    IN  SliceTo([i \in 1..Len(uniq) |-> uniq[i].ref], k)

MergeAndRerank ==
    /\ pc = "call_merge"
    /\ raw' = heap
    /\ heap' = HeapAfterMerge(heap, weights, results)
    /\ merged' = MergedRefs(heap, weights, results, top_k)
    /\ pc' = "merged"
    /\ UNCHANGED <<weights_arg, weights, results, top_k>>
    /\ UNCHANGED <<searchVars, preVars, serviceVars>>

----------------------------------------------------------------------------
(* The inputs of a direct call of merge_and_rerank *)

\* the orders in which a mapping can hold its keys
KeyOrders ==
    { <<"code", "case", "log_pattern">>,
      <<"case", "code">>,
      <<"log_pattern", "case", "code">> }

\* the ways to cut the references 1..n into Len(order) consecutive lists
RECURSIVE Cuts(_, _, _)
Cuts(from, n, m) ==
    IF m = 0 THEN (IF from > n THEN {<<>>} ELSE {})
    ELSE UNION { { <<[j \in 1..(upto - from + 1) |-> from + j - 1]>> \o rest :
                   rest \in Cuts(upto + 1, n, m - 1) } : upto \in (from - 1)..n }

Mappings(n) ==
    UNION { { [i \in 1..Len(order) |-> [source |-> order[i], items |-> cut[i]]] :
              cut \in Cuts(1, n, Len(order)) } : order \in KeyOrders }

\* the source under which a reference is listed
SourceOfRef(res, r) ==
    (CHOOSE i \in 1..Len(res) : r \in Range(res[i].items))

InitMerge ==
    /\ pc = "call_merge"
    /\ weights_arg \in WeightArgs
    /\ weights = InitWeights(weights_arg)
    /\ \E n \in 0..MaxItems :
         /\ results \in Mappings(n)
         /\ \E kinds \in [1..n -> ItemKinds], scores \in [1..n -> RawScores] :
              heap = [r \in 1..n |->
                        RetrievalResult(results[SourceOfRef(results, r)].source,
                                        kinds[r], scores[r])]
    /\ raw = heap
    /\ top_k \in (0 - 1)..MaxTopK
    /\ merged = <<>>
    /\ entry = "merge_and_rerank"
    /\ enable = [c \in Sources |-> FALSE]
    /\ index = [c \in Sources |-> [fails |-> FALSE, corpus |-> <<>>]]
    /\ task_sources = <<>>
    /\ task_state = <<>>
    /\ task_result = <<>>
    /\ finished = <<>>
    /\ gathered = <<>>
    /\ search_args = NoSearchArgs
    /\ task_call = <<>>
    /\ IdlePreprocessor
    /\ IdleService

NextMerge == MergeAndRerank

SpecMerge == InitMerge /\ [][NextMerge]_vars


----------------------------------------------------------------------------
(* The channel retrievers and the index behind them *)

ScoreDen == 100
NoDistance == 0 - 1
NoSimilarity == 0 - 1
HalfScore == 50

\* what the index of a channel can hold for a query, nearest first; an entry
\* is (id, content, metadata) and a distance >= 0 in hundredths, absent when
\* the index gave no distance
Corpora ==
    { << [kind |-> [id |-> IdX, content |-> LongContentP, metadata |-> "m4"],
          distance |-> 0],
         [kind |-> [id |-> IdX, content |-> NoContent, metadata |-> "m1"],
          distance |-> 25] >>,
      << [kind |-> [id |-> IdY, content |-> LongContentQ, metadata |-> "m5"],
          distance |-> 25],
         [kind |-> [id |-> IdY, content |-> ShortContent, metadata |-> "m3"],
          distance |-> NoDistance] >>,
      << [kind |-> [id |-> IdX, content |-> NoContent, metadata |-> "m1"],
          distance |-> 0] >> }

\* mutant: the reciprocal is forgotten
SimilarityNotInverted(d) == ScoreDen + d

\* 1 / (1 + distance)
Similarity(d) == (ScoreDen * ScoreDen) \div (ScoreDen + d)

\* _format_results: the item gets a similarity when it has a distance
FormatResults(hits) ==
    [j \in 1..Len(hits) |->
        [kind |-> hits[j].kind,
         similarity |-> IF hits[j].distance = NoDistance THEN NoSimilarity
                        ELSE Similarity(hits[j].distance)]]

\* r.get("similarity", 0.5)
ScoreOfHit(hit) ==
    IF hit.similarity = NoSimilarity THEN HalfScore ELSE hit.similarity

\* CodeRetriever.search, CaseRetriever.search, LogPatternRetriever.search:
\* the first n_results hits of the index, each tagged with the channel's source
ChannelSearch(c, corpus, k) ==
    LET hits == FormatResults(SliceTo(corpus, k))
    IN  [j \in 1..Len(hits) |-> RetrievalResult(c, hits[j].kind, ScoreOfHit(hits[j]))]

\* the object a channel's search creates for its j-th result
RefOf(c, j) == <<c, j>>

----------------------------------------------------------------------------
(* HybridRetriever.search and HybridRetriever.retrieve *)

ChannelOrder == <<"code", "case", "log_pattern">>

\* the if enable_code / enable_case / enable_log_pattern appends
RECURSIVE EnabledFrom(_, _)
EnabledFrom(order, en) ==
    IF order = <<>> THEN <<>>
    ELSE (IF en[Head(order)] THEN <<Head(order)>> ELSE <<>>)
         \o EnabledFrom(Tail(order), en)

TaskSources(en) == EnabledFrom(ChannelOrder, en)

QueryStackLen == 500

\* the arguments of search: query is a str, the other two may be None
QueryText == <<"q", "r", "y">>
ErrorText == <<"e", "r", "r">>
ShortStack == <<"a", "t", " ", "f">>
LongStack == [i \in 1..QueryStackLen |-> "s"] \o <<"t", "u">>

PlainSearchArgs ==
    [query |-> QueryText, error_message |-> Some(ErrorText), stack_trace |-> None]

SearchArgs ==
    [query : {<<>>, QueryText},
     error_message : {None, Some(<<>>), Some(ErrorText)},
     stack_trace : {None, Some(<<>>), Some(ShortStack), Some(LongStack)}]

\* error_message or query
MessageOrQuery(a) ==
    IF Truthy(a.error_message) THEN a.error_message.val ELSE a.query

\* mutant: the whole stack trace is appended, the [:500] forgotten
CodeQueryWholeStack(a) ==
    IF Truthy(a.stack_trace)
    THEN MessageOrQuery(a) \o <<" ">> \o a.stack_trace.val
    ELSE MessageOrQuery(a)

\* code_query: f"{code_query} {stack_trace[:500]}" when stack_trace is truthy
CodeQuery(a) ==
    IF Truthy(a.stack_trace)
    THEN MessageOrQuery(a) \o <<" ">> \o SliceTo(a.stack_trace.val, QueryStackLen)
    ELSE MessageOrQuery(a)

CaseQuery(a) == a.query

LogQuery(a) == MessageOrQuery(a)

\* the query given to the search of channel c
ChannelQuery(c, a) ==
    CASE c = "code" -> CodeQuery(a)
      [] c = "case" -> CaseQuery(a)
      [] c = "log_pattern" -> LogQuery(a)

\* search(): the queries are built and one coroutine per enabled channel is
\* appended to tasks, its source to task_sources
Search ==
    /\ pc = "start"
    /\ task_sources' = TaskSources(enable)
    /\ task_state' = [i \in 1..Len(TaskSources(enable)) |-> "created"]
    /\ task_result' = [i \in 1..Len(TaskSources(enable)) |->
                         [exc |-> FALSE, items |-> <<>>]]
    /\ task_call' = [i \in 1..Len(TaskSources(enable)) |->
                       [query |-> ChannelQuery(TaskSources(enable)[i], search_args),
                        top_k |-> top_k]]
    /\ pc' = "gather"
    /\ UNCHANGED <<retrieverVars, entry, enable, index, finished, gathered,
                   search_args>>
    /\ UNCHANGED <<preVars, serviceVars>>

\* the event loop starts a task
TaskStart(i) ==
    /\ pc = "gather"
    /\ task_state[i] = "created"
    /\ task_state' = [task_state EXCEPT ![i] = "running"]
    /\ UNCHANGED <<pc, retrieverVars, entry, enable, index, task_sources,
                   task_result, finished, gathered, search_args, task_call>>
    /\ UNCHANGED <<preVars, serviceVars>>

\* a task ends: its channel's search returns its list or raises
TaskFinish(i) ==
    /\ pc = "gather"
    /\ task_state[i] = "running"
    /\ task_state' = [task_state EXCEPT ![i] = "done"]
    /\ finished' = Append(finished, i)
    /\ LET c == task_sources[i]
           found == ChannelSearch(c, index[c].corpus, task_call[i].top_k)
           refs == [j \in 1..Len(found) |-> RefOf(c, j)]
       IN  IF index[c].fails
           THEN /\ task_result' = [task_result EXCEPT
                                     ![i] = [exc |-> TRUE, items |-> <<>>]]
                /\ heap' = heap
           ELSE /\ task_result' = [task_result EXCEPT
                                     ![i] = [exc |-> FALSE, items |-> refs]]
                /\ heap' = [r \in DOMAIN heap \cup Range(refs) |->
                              IF r \in Range(refs)
                              THEN found[CHOOSE j \in 1..Len(refs) : refs[j] = r]
                              ELSE heap[r]]
    /\ UNCHANGED <<pc, weights_arg, weights, raw, results, top_k, merged, entry, enable,
                   index, task_sources, gathered, search_args, task_call>>
    /\ UNCHANGED <<preVars, serviceVars>>

\* mutant: a fail-fast join, the first exception is raised to the caller
GatherFailFast(res, done) ==
    [raised |-> \E i \in 1..Len(res) : res[i].exc, values |-> res]

\* mutant: the results come in the order the tasks completed
GatherInCompletionOrder(res, done) ==
    [raised |-> FALSE, values |-> [i \in 1..Len(res) |-> res[done[i]]]]

\* asyncio.gather(*tasks, return_exceptions=True): one outcome per task, in
\* the order of tasks; an exception is a value of the list, never raised
GatherResults(res, done) == [raised |-> FALSE, values |-> res]

\* mutant: a fail-fast join, done as soon as one task has raised
FirstFailureOrAllDone ==
    \/ \A i \in 1..Len(task_state) : task_state[i] = "done"
    \/ \E i \in 1..Len(task_state) : task_state[i] = "done" /\ task_result[i].exc

\* mutant: the await is given a deadline and may resume at any time
AllDoneOrTimeout == TRUE

\* the await of gather resumes when every task is done
AllDone == \A i \in 1..Len(task_state) : task_state[i] = "done"

Gather ==
    /\ pc = "gather"
    /\ AllDone
    /\ gathered' = GatherResults(task_result, finished).values
    /\ pc' = IF GatherResults(task_result, finished).raised
             THEN "raised" ELSE "organize"
    /\ UNCHANGED <<retrieverVars, entry, enable, index, task_sources,
                   task_state, task_result, finished, search_args, task_call>>
    /\ UNCHANGED <<preVars, serviceVars>>

\* mutant: a channel whose search raised gets no key
RECURSIVE OrganizeSkipFailed(_, _)
OrganizeSkipFailed(srcs, values) ==
    IF srcs = <<>> \/ values = <<>> THEN <<>>
    ELSE (IF Head(values).exc THEN <<>>
          ELSE <<[source |-> Head(srcs), items |-> Head(values).items]>>)
         \o OrganizeSkipFailed(Tail(srcs), Tail(values))

\* mutant: one failed channel empties the whole mapping
RECURSIVE OrganizeAllOrNothing(_, _)
OrganizeAllOrNothing(srcs, values) ==
    IF srcs = <<>> THEN <<>>
    ELSE <<[source |-> Head(srcs),
            items |-> IF \E i \in 1..Len(values) : values[i].exc
                      THEN <<>> ELSE Head(values).items]>>
         \o OrganizeAllOrNothing(Tail(srcs), Tail(values))

\* the loop over zip(task_sources, results) that fills retrieval_results
RECURSIVE OrganizeResults(_, _)
OrganizeResults(srcs, values) ==
    IF srcs = <<>> \/ values = <<>> THEN <<>>
    ELSE <<[source |-> Head(srcs),
            items |-> IF Head(values).exc THEN <<>> ELSE Head(values).items]>>
         \o OrganizeResults(Tail(srcs), Tail(values))

\* search() returns retrieval_results; retrieve() goes on to merge_and_rerank
Organize ==
    /\ pc = "organize"
    /\ results' = OrganizeResults(task_sources, gathered)
    /\ pc' = IF entry = "retrieve" THEN "call_merge" ELSE "search_returned"
    /\ UNCHANGED <<weights_arg, weights, heap, raw, top_k, merged, searchVars>>
    /\ UNCHANGED <<preVars, serviceVars>>

InitRetrieve ==
    /\ pc = "start"
    /\ weights_arg \in WeightArgs
    /\ weights = InitWeights(weights_arg)
    /\ heap = <<>>
    /\ raw = <<>>
    /\ results = <<>>
    /\ top_k \in 0..MaxTopK
    /\ merged = <<>>
    /\ entry \in {"search", "retrieve"}
    /\ enable \in [Sources -> BOOLEAN]
    /\ entry = "retrieve" => enable = [c \in Sources |-> TRUE]
    /\ index \in [Sources -> {[fails |-> TRUE, corpus |-> <<>>]}
                              \cup {[fails |-> FALSE, corpus |-> cp] : cp \in Corpora}]
    /\ task_sources = <<>>
    /\ task_state = <<>>
    /\ task_result = <<>>
    /\ finished = <<>>
    /\ gathered = <<>>
    /\ search_args = PlainSearchArgs
    /\ task_call = <<>>
    /\ IdlePreprocessor
    /\ IdleService

NextRetrieve ==
    \/ Search
    \/ \E i \in 1..Len(task_state) : TaskStart(i)
    \/ \E i \in 1..Len(task_state) : TaskFinish(i)
    \/ Gather
    \/ Organize
    \/ MergeAndRerank

SpecRetrieve == InitRetrieve /\ [][NextRetrieve]_vars

\* search and retrieve called with any arguments, over a small index
SmallIndexes ==
    [Sources -> {[fails |-> TRUE, corpus |-> <<>>],
                 [fails |-> FALSE,
                  corpus |-> << [kind |-> [id |-> IdX, content |-> NoContent,
                                           metadata |-> "m1"],
                                 distance |-> 0] >>]}]

InitSearch ==
    /\ pc = "start"
    /\ weights_arg = None
    /\ weights = InitWeights(weights_arg)
    /\ heap = <<>>
    /\ raw = <<>>
    /\ results = <<>>
    /\ top_k \in 0..MaxTopK
    /\ merged = <<>>
    /\ entry \in {"search", "retrieve"}
    /\ enable \in [Sources -> BOOLEAN]
    /\ entry = "retrieve" => enable = [c \in Sources |-> TRUE]
    /\ index \in SmallIndexes
    /\ task_sources = <<>>
    /\ task_state = <<>>
    /\ task_result = <<>>
    /\ finished = <<>>
    /\ gathered = <<>>
    /\ search_args \in SearchArgs
    /\ task_call = <<>>
    /\ IdlePreprocessor
    /\ IdleService

SpecSearch == InitSearch /\ [][NextRetrieve]_vars

\* search and retrieve of a default retriever over a small index
InitFair ==
    /\ pc = "start"
    /\ weights_arg = None
    /\ weights = InitWeights(weights_arg)
    /\ heap = <<>>
    /\ raw = <<>>
    /\ results = <<>>
    /\ top_k \in 0..MaxTopK
    /\ merged = <<>>
    /\ entry \in {"search", "retrieve"}
    /\ enable \in [Sources -> BOOLEAN]
    /\ entry = "retrieve" => enable = [c \in Sources |-> TRUE]
    /\ index \in SmallIndexes
    /\ task_sources = <<>>
    /\ task_state = <<>>
    /\ task_result = <<>>
    /\ finished = <<>>
    /\ gathered = <<>>
    /\ search_args = PlainSearchArgs
    /\ task_call = <<>>
    /\ IdlePreprocessor
    /\ IdleService

\* The steps of search and retrieve themselves are taken once they can be:
\* the event loop runs what is ready.  When a channel's search finishes is up
\* to the collaborator behind it, so TaskFinish has no fairness.
SpecRetrieveFair ==
    /\ InitFair
    /\ [][NextRetrieve]_vars
    /\ WF_vars(Search)
    /\ WF_vars(\E i \in 1..Len(task_state) : TaskStart(i))
    /\ WF_vars(Gather)
    /\ WF_vars(Organize)
    /\ WF_vars(MergeAndRerank)

----------------------------------------------------------------------------
(* StackParser *)

\* A stack trace is the sequence of its lines.  A line is one of:
\*   pyframe    File "<file>", line <lineno>, in <name>     (indented)
\*   javaframe  at <name>(<file>:<lineno>)                  (indented)
\*   code       an indented source line, <text>
\*   exc        <name>: <text>, from the first column
\*   header     Traceback (most recent call last):
\*   blank      spaces only
Line(shape, file, lineno, name, text) ==
    [shape |-> shape, file |-> file, lineno |-> lineno, name |-> name, text |-> text]

FnHandle == <<"h", "a", "n", "d", "l", "e">>
FnCall == <<"c", "a", "l", "l">>
FnLoad == <<"l", "o", "a", "d">>
FnRise == <<"r", "i", "s", "e">>
MethodFooRun == <<"c", "o", "m", ".", "x", ".", "F", "o", "o", ".", "r", "u", "n">>
MethodSunGo == <<"s", "u", "n", ".", "m", "i", "s", "c", ".", "S", "u", "n", ".", "g", "o">>
CodeText == <<"x", " ", "=", " ", "l", "o", "a", "d", "(", ")">>
MsgBadValue == <<"b", "a", "d", " ", "v", "a", "l", "u", "e">>
MsgOldCall == <<"o", "l", "d", " ", "c", "a", "l", "l">>
MsgDisk == <<"d", "i", "s", "k">>
MsgClosed == <<"c", "l", "o", "s", "e", "d">>
UnableToParse == <<"U", "n", "a", "b", "l", "e", " ", "t", "o", " ", "p", "a", "r", "s", "e", " ", "e", "x", "c", "e", "p", "t", "i", "o", "n">>
NoStackTraceProvided == <<"N", "o", " ", "s", "t", "a", "c", "k", " ", "t", "r", "a", "c", "e", " ", "p", "r", "o", "v", "i", "d", "e", "d">>
MsgRedisTimeout == <<"R", "e", "d", "i", "s", " ", "c", "o", "n", "n", "e", "c", "t", "i", "o", "n", " ", "t", "i", "m", "e", "o", "u", "t">>
TextSlow == <<"s", "l", "o", "w">>

PathService == <<"/", "a", "p", "p", "/", "s", "v", "c", ".", "p", "y">>
PathUtil == <<"/", "a", "p", "p", "/", "u", "t", "i", "l", ".", "p", "y">>
PathSitePackages == <<"/", "S", "i", "t", "e", "-", "P", "a", "c", "k", "a", "g", "e", "s", "/", "a", ".", "p", "y">>
PathSun == <<"/", "a", "p", "p", "/", "s", "u", "n", ".", "p", "y">>
FileFoo == <<"F", "o", "o", ".", "j", "a", "v", "a">>
FileSun == <<"S", "u", "n", ".", "j", "a", "v", "a">>

TypeValueError == <<"V", "a", "l", "u", "e", "E", "r", "r", "o", "r">>
TypeWarning == <<"D", "e", "p", "r", "e", "c", "a", "t", "i", "o", "n", "W", "a", "r", "n", "i", "n", "g">>
TypeDotted == <<".", ".", "I", "O", "E", "r", "r", "o", "r">>
TypeJava == <<"j", "a", "v", "a", ".", "l", "a", "n", "g", ".", "I", "l", "l", "e", "g", "a", "l", "S", "t", "a", "t", "e", "E", "x", "c", "e", "p", "t", "i", "o", "n">>

StackLines ==
    { Line("pyframe", PathService, 3, FnHandle, <<>>),
      Line("pyframe", PathSitePackages, 7, FnCall, <<>>),
      Line("pyframe", PathUtil, 9, FnLoad, <<>>),
      Line("pyframe", PathSun, 5, FnRise, <<>>),
      Line("javaframe", FileFoo, 12, MethodFooRun, <<>>),
      Line("javaframe", FileSun, 4, MethodSunGo, <<>>),
      Line("code", <<>>, 0, <<>>, CodeText),
      Line("exc", <<>>, 0, TypeValueError, MsgBadValue),
      Line("exc", <<>>, 0, TypeWarning, MsgOldCall),
      Line("exc", <<>>, 0, TypeDotted, MsgDisk),
      Line("exc", <<>>, 0, TypeJava, MsgClosed),
      Line("header", <<>>, 0, <<>>, <<>>),
      Line("blank", <<>>, 0, <<>>, <<>>) }

\* FRAMEWORK_PATTERNS: each is a literal text, matched ignoring case
FRAMEWORK_PATTERNS ==
    { <<"s", "i", "t", "e", "-", "p", "a", "c", "k", "a", "g", "e", "s">>,
      <<"d", "i", "s", "t", "-", "p", "a", "c", "k", "a", "g", "e", "s">>,
      <<"l", "i", "b", "/", "p", "y", "t", "h", "o", "n">>,
      <<"j", "a", "v", "a", ".", "l", "a", "n", "g", ".">>,
      <<"j", "a", "v", "a", ".", "u", "t", "i", "l", ".">>,
      <<"o", "r", "g", ".", "s", "p", "r", "i", "n", "g", "f", "r", "a", "m", "e", "w", "o", "r", "k", ".">>,
      <<"c", "o", "m", ".", "s", "u", "n", ".">>,
      <<"s", "u", "n", ".">>,
      <<"f", "a", "s", "t", "a", "p", "i">>,
      <<"s", "t", "a", "r", "l", "e", "t", "t", "e">>,
      <<"u", "v", "i", "c", "o", "r", "n">>,
      <<"a", "s", "y", "n", "c", "i", "o">>,
      <<"c", "o", "n", "c", "u", "r", "r", "e", "n", "t">> }

\* _is_framework_code
IsFrameworkCode(file_path) ==
    \E pattern \in FRAMEWORK_PATTERNS : Contains(Lower(file_path), pattern)

StackFrame(file, lineno, function, code) ==
    [file |-> file, line |-> lineno, function |-> function, code |-> code,
     is_framework |-> FALSE]

\* lines[i + 1].strip(), kept as code when not empty and not starting with File
CodeAfter(lines, i) ==
    IF i + 1 <= Len(lines) /\ lines[i + 1].shape \notin {"pyframe", "blank"}
    THEN Some(lines[i + 1])
    ELSE None

\* _parse_python_frames: one frame per line matching PYTHON_FRAME_PATTERN
RECURSIVE PythonFramesFrom(_, _)
PythonFramesFrom(lines, i) ==
    IF i > Len(lines) THEN <<>>
    ELSE (IF lines[i].shape = "pyframe"
          THEN <<StackFrame(lines[i].file, lines[i].lineno, lines[i].name,
                            CodeAfter(lines, i))>>
          ELSE <<>>)
         \o PythonFramesFrom(lines, i + 1)

ParsePythonFrames(lines) == PythonFramesFrom(lines, 1)

\* _parse_java_frames: one frame per match of JAVA_FRAME_PATTERN
RECURSIVE JavaFramesFrom(_, _)
JavaFramesFrom(lines, i) ==
    IF i > Len(lines) THEN <<>>
    ELSE (IF lines[i].shape = "javaframe"
          THEN <<StackFrame(lines[i].file, lines[i].lineno, lines[i].name, None)>>
          ELSE <<>>)
         \o JavaFramesFrom(lines, i + 1)

ParseJavaFrames(lines) == JavaFramesFrom(lines, 1)

\* \w+(?:\.\w+)*: words joined by single dots
IsDottedName(t) ==
    /\ Len(t) >= 1
    /\ \A i \in 1..Len(t) : IsWordChar(t[i]) \/ t[i] = "."
    /\ t[1] # "." /\ t[Len(t)] # "."
    /\ \A i \in 1..(Len(t) - 1) : ~(t[i] = "." /\ t[i + 1] = ".")

\* PYTHON_EXCEPTION_PATTERN  ^(\w+(?:\.\w+)*(?:Error|Exception|Warning)?): (.+)$
MatchesPythonException(l) ==
    l.shape = "exc" /\ IsDottedName(l.name) /\ l.text # <<>>

\* JAVA_EXCEPTION_PATTERN  ^([\w.]+(?:Exception|Error)): (.+)$
MatchesJavaException(l) ==
    /\ l.shape = "exc" /\ l.text # <<>>
    /\ \A i \in 1..Len(l.name) : IsWordChar(l.name[i]) \/ l.name[i] = "."
    /\ \/ EndsWith(l.name, <<"E", "x", "c", "e", "p", "t", "i", "o", "n">>) /\ Len(l.name) > 9
       \/ EndsWith(l.name, <<"E", "r", "r", "o", "r">>) /\ Len(l.name) > 5

UnknownType == <<"U", "n", "k", "n", "o", "w", "n">>
UnknownErrorType == <<"U", "n", "k", "n", "o", "w", "n", "E", "r", "r", "o", "r">>
UnknownExceptionType == <<"U", "n", "k", "n", "o", "w", "n", "E", "x", "c", "e", "p", "t", "i", "o", "n">>

\* _parse_python_exception: the first matching line, else the defaults
ParsePythonException(lines) ==
    IF \E i \in 1..Len(lines) : MatchesPythonException(lines[i])
    THEN LET i == CHOOSE k \in 1..Len(lines) :
                     /\ MatchesPythonException(lines[k])
                     /\ \A j \in 1..(k - 1) : ~MatchesPythonException(lines[j])
         IN  <<lines[i].name, lines[i].text>>
    ELSE <<UnknownErrorType, UnableToParse>>

\* _parse_java_exception
ParseJavaException(lines) ==
    IF \E i \in 1..Len(lines) : MatchesJavaException(lines[i])
    THEN LET i == CHOOSE k \in 1..Len(lines) :
                     /\ MatchesJavaException(lines[k])
                     /\ \A j \in 1..(k - 1) : ~MatchesJavaException(lines[j])
         IN  <<lines[i].name, lines[i].text>>
    ELSE <<UnknownExceptionType, UnableToParse>>

\* for frame in frames: frame.is_framework = self._is_framework_code(frame.file)
MarkFramework(frames) ==
    [i \in 1..Len(frames) |->
        [frames[i] EXCEPT !.is_framework = IsFrameworkCode(frames[i].file)]]

\* mutant: the scan runs from the outermost frame
RECURSIVE RootFrameOutermost(_, _)
RootFrameOutermost(frames, i) ==
    IF i = 0 THEN 0
    ELSE LET k == Len(frames) - i + 1
         IN  IF ~frames[k].is_framework THEN k
             ELSE RootFrameOutermost(frames, i - 1)

\* for frame in reversed(frames): the first that is not framework code, from
\* position i down; the frame object is named by its position, 0 is None
RECURSIVE RootFrame(_, _)
RootFrame(frames, i) ==
    IF i = 0 THEN 0
    ELSE IF ~frames[i].is_framework THEN i
         ELSE RootFrame(frames, i - 1)

\* mutant: without Python frames the exception is always read as a Java one
ParseJavaExceptionWithoutFrames(lines) ==
    IF lines = <<>>
    THEN [exception_type |-> UnknownType,
          exception_message |-> NoStackTraceProvided,
          frames |-> <<>>, root_frame |-> 0]
    ELSE LET py == ParsePythonFrames(lines)
             java == IF py = <<>> THEN ParseJavaFrames(lines) ELSE <<>>
             found == IF py # <<>> THEN py ELSE java
             exc == IF py = <<>>
                    THEN ParseJavaException(lines)
                    ELSE ParsePythonException(lines)
             frames == MarkFramework(found)
         IN  [exception_type |-> exc[1], exception_message |-> exc[2],
              frames |-> frames, root_frame |-> RootFrame(frames, Len(frames))]

\* mutant: the empty text is parsed like any other
ParseWithoutSentinel(lines) ==
    LET py == ParsePythonFrames(lines)
        java == IF py = <<>> THEN ParseJavaFrames(lines) ELSE <<>>
        found == IF py # <<>> THEN py ELSE java
        exc == IF py = <<>> /\ java # <<>>
               THEN ParseJavaException(lines)
               ELSE ParsePythonException(lines)
        frames == MarkFramework(found)
    IN  [exception_type |-> exc[1], exception_message |-> exc[2],
         frames |-> frames, root_frame |-> RootFrame(frames, Len(frames))]

\* StackParser.parse
Parse(lines) ==
    IF lines = <<>>
    THEN [exception_type |-> UnknownType,
          exception_message |-> NoStackTraceProvided,
          frames |-> <<>>, root_frame |-> 0]
    ELSE LET py == ParsePythonFrames(lines)
             java == IF py = <<>> THEN ParseJavaFrames(lines) ELSE <<>>
             found == IF py # <<>> THEN py ELSE java
             exc == IF py = <<>> /\ java # <<>>
                    THEN ParseJavaException(lines)
                    ELSE ParsePythonException(lines)
             frames == MarkFramework(found)
         IN  [exception_type |-> exc[1], exception_message |-> exc[2],
              frames |-> frames, root_frame |-> RootFrame(frames, Len(frames))]

ParseCall ==
    /\ pc = "call_parse"
    /\ parsed' = Parse(stack_trace)
    /\ pc' = "parsed"
    /\ UNCHANGED <<retrieverVars, searchVars, serviceVars, stack_trace, bug_input, processed,
                   pureVars>>

IdleRetriever ==
    /\ weights_arg = None
    /\ weights = InitWeights(weights_arg)
    /\ heap = <<>>
    /\ raw = <<>>
    /\ results = <<>>
    /\ top_k = 0
    /\ merged = <<>>
    /\ entry = "none"
    /\ enable = [c \in Sources |-> FALSE]
    /\ index = [c \in Sources |-> [fails |-> FALSE, corpus |-> <<>>]]
    /\ task_sources = <<>>
    /\ task_state = <<>>
    /\ task_result = <<>>
    /\ finished = <<>>
    /\ gathered = <<>>
    /\ search_args = NoSearchArgs
    /\ task_call = <<>>

\* the texts of at most n lines
RECURSIVE Texts(_)
Texts(n) ==
    IF n = 0 THEN {<<>>}
    ELSE Texts(n - 1) \cup
         {Append(t, l) : t \in {u \in Texts(n - 1) : Len(u) = n - 1}, l \in StackLines}

InitParse ==
    /\ pc = "call_parse"
    /\ stack_trace \in Texts(MaxLines)
    /\ parsed = NoParse
    /\ bug_input = NoBugInput
    /\ processed = NoResult
    /\ IdlePure
    /\ IdleRetriever
    /\ IdleService

NextParse == ParseCall

SpecParse == InitParse /\ [][NextParse]_vars

----------------------------------------------------------------------------
(* LogAggregator *)

\* the characters of the model in code point order
CodePoints == <<" ", "-", ".", "/", "0", "1", "2", "3", "4", "5", "6", "7", "8", "9", ":", "=", "A", "B", "C", "D", "E", "F", "G", "H", "I", "J", "K", "L", "M", "N", "O", "P", "Q", "R", "S", "T", "U", "V", "W", "X", "Y", "Z", "_", "a", "b", "c", "d", "e", "f", "g", "h", "i", "j", "k", "l", "m", "n", "o", "p", "q", "r", "s", "t", "u", "v", "w", "x", "y", "z">>
Ord(ch) == CHOOSE i \in 1..Len(CodePoints) : CodePoints[i] = ch

\* a <= b for Python str
RECURSIVE StrLessEq(_, _)
StrLessEq(a, b) ==
    IF a = <<>> THEN TRUE
    ELSE IF b = <<>> THEN FALSE
    ELSE IF Head(a) = Head(b) THEN StrLessEq(Tail(a), Tail(b))
    ELSE Ord(Head(a)) < Ord(Head(b))

\* timestamp_patterns, as the class or the literal each position asks for
\*   (\d{4}-\d{2}-\d{2}[T\s]\d{2}:\d{2}:\d{2})
\*   (\d{2}/\w{3}/\d{4}:\d{2}:\d{2}:\d{2})
TimestampPatterns ==
    << <<"digit", "digit", "digit", "digit", "-", "digit", "digit", "-",
         "digit", "digit", "sep", "digit", "digit", ":", "digit", "digit",
         ":", "digit", "digit">>,
       <<"digit", "digit", "/", "word", "word", "word", "/", "digit", "digit",
         "digit", "digit", ":", "digit", "digit", ":", "digit", "digit", ":",
         "digit", "digit">> >>

ClassMatch(class, ch) ==
    CASE class = "digit" -> IsDigit(ch)
      [] class = "word" -> IsWordChar(ch)
      [] class = "sep" -> ch \in {"T", " "}
      [] OTHER -> ch = class

MatchAt(text, i, pattern) ==
    /\ i + Len(pattern) - 1 <= Len(text)
    /\ \A j \in 1..Len(pattern) : ClassMatch(pattern[j], text[i + j - 1])

\* re.search(pattern, log): the leftmost match, <<>> when there is none
SearchPattern(text, pattern) ==
    IF \E i \in 1..Len(text) : MatchAt(text, i, pattern)
    THEN LET i == CHOOSE k \in 1..Len(text) :
                     /\ MatchAt(text, k, pattern)
                     /\ \A j \in 1..(k - 1) : ~MatchAt(text, j, pattern)
         IN  SubSeq(text, i, i + Len(pattern) - 1)
    ELSE <<>>

\* extract_timestamp: the match of the first pattern that matches, else <<>>
RECURSIVE ExtractFrom(_, _)
ExtractFrom(log, patterns) ==
    IF patterns = <<>> THEN <<>>
    ELSE IF SearchPattern(log, Head(patterns)) # <<>>
         THEN SearchPattern(log, Head(patterns))
         ELSE ExtractFrom(log, Tail(patterns))

ExtractTimestamp(log) == ExtractFrom(log, TimestampPatterns)

\* mutant: without a trace_id, only the lines that start with a digit are kept
AggregateStampedOnly(lines, id) ==
    IF ~Truthy(id)
    THEN SelectSeq(lines, LAMBDA log : log # <<>> /\ IsDigit(log[1]))
    ELSE SelectSeq(lines, LAMBDA log : Contains(log, id.val))

\* mutant: the trace_id is not looked at, every line is kept
AggregateKeepAll(lines, id) == lines

\* mutant: the line has to end with the trace_id
AggregateByTraceAtEnd(lines, id) ==
    IF ~Truthy(id) THEN lines
    ELSE SelectSeq(lines, LAMBDA log : EndsWith(log, id.val))

\* aggregate_by_trace
AggregateByTrace(lines, id) ==
    IF ~Truthy(id) THEN lines
    ELSE SelectSeq(lines, LAMBDA log : Contains(log, id.val))

\* mutant: log goes before the lines of equal key, so ties are reversed
RECURSIVE InsertByTimestampUnstable(_, _)
InsertByTimestampUnstable(sorted, log) ==
    IF sorted = <<>> THEN <<log>>
    ELSE IF /\ StrLessEq(ExtractTimestamp(Head(sorted)), ExtractTimestamp(log))
            /\ ExtractTimestamp(Head(sorted)) # ExtractTimestamp(log)
         THEN <<Head(sorted)>> \o InsertByTimestampUnstable(Tail(sorted), log)
         ELSE <<log>> \o sorted

\* sorted(logs, key=extract_timestamp): stable, ascending
RECURSIVE InsertByTimestamp(_, _)
InsertByTimestamp(sorted, log) ==
    IF sorted = <<>> THEN <<log>>
    ELSE IF StrLessEq(ExtractTimestamp(Head(sorted)), ExtractTimestamp(log))
         THEN <<Head(sorted)>> \o InsertByTimestamp(Tail(sorted), log)
         ELSE <<log>> \o sorted

RECURSIVE SortFrom(_, _)
SortFrom(acc, lines) ==
    IF lines = <<>> THEN acc
    ELSE SortFrom(InsertByTimestamp(acc, Head(lines)), Tail(lines))

SortByTimestamp(lines) == SortFrom(<<>>, lines)

\* the LogAggregator methods called on their own
AggregateByTraceCall ==
    /\ pc = "call_logs"
    /\ log_result' = AggregateByTrace(logs, trace_id)
    /\ pc' = "aggregated"
    /\ UNCHANGED <<retrieverVars, searchVars, serviceVars, stack_trace, parsed, bug_input,
                   processed, logs, trace_id, entityVars>>

SortByTimestampCall ==
    /\ pc = "call_logs"
    /\ log_result' = SortByTimestamp(logs)
    /\ pc' = "sorted"
    /\ UNCHANGED <<retrieverVars, searchVars, serviceVars, stack_trace, parsed, bug_input,
                   processed, logs, trace_id, entityVars>>

----------------------------------------------------------------------------
(* Regular expressions, as EntityExtractor uses them with re.IGNORECASE *)

\* A pattern is a sequence of nodes.  A node is
\*   lit    a character, taken between min and max times, whatever its case
\*   set    a character of a class, taken between min and max times
\*   alt    one of several patterns, tried in order; min = 0: or none of them
\*   bnd    \b
\*   open, close   the parentheses of group 1
\* A repetition is greedy: it takes all it can and gives back one by one.
Unbounded == 0 - 1

Node(t, cls, min, max, alts) ==
    [t |-> t, cls |-> cls, min |-> min, max |-> max, alts |-> alts]

Lit(s) == [i \in 1..Len(s) |-> Node("lit", s[i], 1, 1, <<>>)]
RepLit(ch, min, max) == <<Node("lit", ch, min, max, <<>>)>>
Rep(cls, min, max) == <<Node("set", cls, min, max, <<>>)>>
Alt(alts) == <<Node("alt", "", 1, 1, alts)>>
Opt(alts) == <<Node("alt", "", 0, 1, alts)>>
Bnd == <<Node("bnd", "", 0, 0, <<>>)>>
Group(p) == <<Node("open", "", 0, 0, <<>>)>> \o p \o <<Node("close", "", 0, 0, <<>>)>>

IsSpace(ch) == ch \in {" ", "\t", "\n"}
IsAlnum(ch) == ch \in Range(UpperCase) \cup Range(LowerCase) \cup Range(DigitChars)

\* the character classes of the patterns
InClass(cls, ch) ==
    CASE cls = "\\d" -> IsDigit(ch)
      [] cls = "\\s" -> IsSpace(ch)
      [] cls = "[^\\s]" -> ~IsSpace(ch)
      [] cls = "[_-]" -> ch \in {"_", "-"}
      [] cls = "[=:\\s]" -> ch \in {"=", ":"} \/ IsSpace(ch)
      [] cls = "[/\\s]" -> ch = "/" \/ IsSpace(ch)
      [] cls = "[a-zA-Z0-9-]" -> IsAlnum(ch) \/ ch = "-"
      [] cls = "[a-zA-Z0-9_-]" -> IsAlnum(ch) \/ ch \in {"_", "-"}

Takes(node, ch) ==
    IF node.t = "lit" THEN LowerChar(ch) = LowerChar(node.cls)
    ELSE InClass(node.cls, ch)

\* how many characters from pos on the node can take, at most
RECURSIVE Run(_, _, _, _)
Run(text, pos, node, n) ==
    IF /\ pos + n <= Len(text)
       /\ (node.max = Unbounded \/ n < node.max)
       /\ Takes(node, text[pos + n])
    THEN Run(text, pos, node, n + 1)
    ELSE n

\* \b at pos: a word character on one side only
AtBoundary(text, pos) ==
    LET before == pos > 1 /\ IsWordChar(text[pos - 1])
        after == pos <= Len(text) /\ IsWordChar(text[pos])
    IN  before # after

NoMatch == [ok |-> FALSE, end |-> 0, s |-> 0, e |-> 0]

\* the match of pat starting at pos that the backtracking search finds first:
\* end is the position after it, s and e bound group 1
RECURSIVE MatchHere(_, _, _, _), TryCount(_, _, _, _, _, _), TryAlts(_, _, _, _, _, _)
MatchHere(text, pos, pat, cap) ==
    IF pat = <<>> THEN [ok |-> TRUE, end |-> pos, s |-> cap[1], e |-> cap[2]]
    ELSE LET node == Head(pat)
             rest == Tail(pat)
         IN  CASE node.t = "open" -> MatchHere(text, pos, rest, <<pos, cap[2]>>)
               [] node.t = "close" -> MatchHere(text, pos, rest, <<cap[1], pos>>)
               [] node.t = "bnd" ->
                    IF AtBoundary(text, pos) THEN MatchHere(text, pos, rest, cap)
                    ELSE NoMatch
               [] node.t = "alt" -> TryAlts(text, pos, node, 1, rest, cap)
               [] OTHER -> TryCount(text, pos, node, Run(text, pos, node, 0), rest, cap)

TryCount(text, pos, node, n, rest, cap) ==
    IF n < node.min THEN NoMatch
    ELSE LET r == MatchHere(text, pos + n, rest, cap)
         IN  IF r.ok THEN r ELSE TryCount(text, pos, node, n - 1, rest, cap)

TryAlts(text, pos, node, i, rest, cap) ==
    IF i > Len(node.alts)
    THEN (IF node.min = 0 THEN MatchHere(text, pos, rest, cap) ELSE NoMatch)
    ELSE LET r == MatchHere(text, pos, node.alts[i] \o rest, cap)
         IN  IF r.ok THEN r ELSE TryAlts(text, pos, node, i + 1, rest, cap)

\* re.finditer / re.findall: group 1 of the matches, left to right, each
\* search resuming where the last match ended
RECURSIVE FindAllFrom(_, _, _)
FindAllFrom(text, pat, from) ==
    IF from > Len(text) + 1 THEN <<>>
    ELSE LET r == MatchHere(text, from, pat, <<0, 0>>)
         IN  IF r.ok
             THEN <<SubSeq(text, r.s, r.e - 1)>>
                  \o FindAllFrom(text, pat, IF r.end > from THEN r.end ELSE from + 1)
             ELSE FindAllFrom(text, pat, from + 1)

FindAll(text, pat) == FindAllFrom(text, pat, 1)

----------------------------------------------------------------------------
(* EntityExtractor *)

PATTERNS ==
    <<
      [type |-> "trace_id",
       patterns |-> <<
           \* trace[_-]?id[=:\s]+([a-zA-Z0-9-]+)
           Lit(<<"t", "r", "a", "c", "e">>)
             \o Rep("[_-]", 0, 1)
             \o Lit(<<"i", "d">>)
             \o Rep("[=:\\s]", 1, Unbounded)
             \o Group(Rep("[a-zA-Z0-9-]", 1, Unbounded)),
           \* x-trace-id[=:\s]+([a-zA-Z0-9-]+)
           Lit(<<"x", "-", "t", "r", "a", "c", "e", "-", "i", "d">>)
             \o Rep("[=:\\s]", 1, Unbounded)
             \o Group(Rep("[a-zA-Z0-9-]", 1, Unbounded)) >>],
      [type |-> "request_id",
       patterns |-> <<
           \* request[_-]?id[=:\s]+([a-zA-Z0-9-]+)
           Lit(<<"r", "e", "q", "u", "e", "s", "t">>)
             \o Rep("[_-]", 0, 1)
             \o Lit(<<"i", "d">>)
             \o Rep("[=:\\s]", 1, Unbounded)
             \o Group(Rep("[a-zA-Z0-9-]", 1, Unbounded)),
           \* req[_-]?id[=:\s]+([a-zA-Z0-9-]+)
           Lit(<<"r", "e", "q">>)
             \o Rep("[_-]", 0, 1)
             \o Lit(<<"i", "d">>)
             \o Rep("[=:\\s]", 1, Unbounded)
             \o Group(Rep("[a-zA-Z0-9-]", 1, Unbounded)) >>],
      [type |-> "user_id",
       patterns |-> <<
           \* user[_-]?id[=:\s]+([a-zA-Z0-9-]+)
           Lit(<<"u", "s", "e", "r">>)
             \o Rep("[_-]", 0, 1)
             \o Lit(<<"i", "d">>)
             \o Rep("[=:\\s]", 1, Unbounded)
             \o Group(Rep("[a-zA-Z0-9-]", 1, Unbounded)),
           \* uid[=:\s]+([a-zA-Z0-9-]+)
           Lit(<<"u", "i", "d">>)
             \o Rep("[=:\\s]", 1, Unbounded)
             \o Group(Rep("[a-zA-Z0-9-]", 1, Unbounded)) >>],
      [type |-> "error_code",
       patterns |-> <<
           \* error[_-]?code[=:\s]+(\d+)
           Lit(<<"e", "r", "r", "o", "r">>)
             \o Rep("[_-]", 0, 1)
             \o Lit(<<"c", "o", "d", "e">>)
             \o Rep("[=:\\s]", 1, Unbounded)
             \o Group(Rep("\\d", 1, Unbounded)),
           \* code[=:\s]+(\d{3,})
           Lit(<<"c", "o", "d", "e">>)
             \o Rep("[=:\\s]", 1, Unbounded)
             \o Group(Rep("\\d", 3, Unbounded)),
           \* HTTP[/\s]+\d+\.\d+\s+(\d{3})
           Lit(<<"H", "T", "T", "P">>)
             \o Rep("[/\\s]", 1, Unbounded)
             \o Rep("\\d", 1, Unbounded)
             \o Lit(<<".">>)
             \o Rep("\\d", 1, Unbounded)
             \o Rep("\\s", 1, Unbounded)
             \o Group(Rep("\\d", 3, 3)) >>],
      [type |-> "api_endpoint",
       patterns |-> <<
           \* (?:GET|POST|PUT|DELETE|PATCH)\s+(/[^\s]+)
           Alt(<<Lit(<<"G", "E", "T">>), Lit(<<"P", "O", "S", "T">>), Lit(<<"P", "U", "T">>), Lit(<<"D", "E", "L", "E", "T", "E">>), Lit(<<"P", "A", "T", "C", "H">>)>>)
             \o Rep("\\s", 1, Unbounded)
             \o Group(Lit(<<"/">>) \o Rep("[^\\s]", 1, Unbounded)),
           \* endpoint[=:\s]+(/[^\s]+)
           Lit(<<"e", "n", "d", "p", "o", "i", "n", "t">>)
             \o Rep("[=:\\s]", 1, Unbounded)
             \o Group(Lit(<<"/">>) \o Rep("[^\\s]", 1, Unbounded)),
           \* path[=:\s]+(/[^\s]+)
           Lit(<<"p", "a", "t", "h">>)
             \o Rep("[=:\\s]", 1, Unbounded)
             \o Group(Lit(<<"/">>) \o Rep("[^\\s]", 1, Unbounded)) >>],
      [type |-> "service_name",
       patterns |-> <<
           \* service[=:\s]+([a-zA-Z0-9_-]+)
           Lit(<<"s", "e", "r", "v", "i", "c", "e">>)
             \o Rep("[=:\\s]", 1, Unbounded)
             \o Group(Rep("[a-zA-Z0-9_-]", 1, Unbounded)),
           \* from\s+([a-zA-Z0-9_-]+-service)
           Lit(<<"f", "r", "o", "m">>)
             \o Rep("\\s", 1, Unbounded)
             \o Group(Rep("[a-zA-Z0-9_-]", 1, Unbounded) \o Lit(<<"-", "s", "e", "r", "v", "i", "c", "e">>)) >>],
      [type |-> "timeout",
       patterns |-> <<
           \* timeout[=:\s]+(\d+(?:\.\d+)?)\s*(?:s|ms)?
           Lit(<<"t", "i", "m", "e", "o", "u", "t">>)
             \o Rep("[=:\\s]", 1, Unbounded)
             \o Group(Rep("\\d", 1, Unbounded) \o Opt(<<Lit(<<".">>) \o Rep("\\d", 1, Unbounded)>>))
             \o Rep("\\s", 0, Unbounded)
             \o Opt(<<Lit(<<"s">>), Lit(<<"m", "s">>)>>),
           \* (\d+(?:\.\d+)?)\s*(?:seconds?|ms|milliseconds?)\s+timeout
           Group(Rep("\\d", 1, Unbounded) \o Opt(<<Lit(<<".">>) \o Rep("\\d", 1, Unbounded)>>))
             \o Rep("\\s", 0, Unbounded)
             \o Alt(<<Lit(<<"s", "e", "c", "o", "n", "d">>) \o RepLit("s", 0, 1), Lit(<<"m", "s">>), Lit(<<"m", "i", "l", "l", "i", "s", "e", "c", "o", "n", "d">>) \o RepLit("s", 0, 1)>>)
             \o Rep("\\s", 1, Unbounded)
             \o Lit(<<"t", "i", "m", "e", "o", "u", "t">>) >>],
      [type |-> "ip_address",
       patterns |-> <<
           \* \b(\d{1,3}\.\d{1,3}\.\d{1,3}\.\d{1,3})\b
           Bnd
             \o Group(Rep("\\d", 1, 3) \o Lit(<<".">>) \o Rep("\\d", 1, 3) \o Lit(<<".">>) \o Rep("\\d", 1, 3) \o Lit(<<".">>) \o Rep("\\d", 1, 3))
             \o Bnd >>],
      [type |-> "port",
       patterns |-> <<
           \* :(\d{2,5})\b
           Lit(<<":">>) \o Group(Rep("\\d", 2, 5)) \o Bnd >>] >>

error_patterns ==
    <<
      \* \b(timeout|timed?\s*out)\b
      Bnd
        \o Group(Alt(<<Lit(<<"t", "i", "m", "e", "o", "u", "t">>), Lit(<<"t", "i", "m", "e">>) \o RepLit("d", 0, 1) \o Rep("\\s", 0, Unbounded) \o Lit(<<"o", "u", "t">>)>>))
        \o Bnd,
      \* \b(connection\s+(?:refused|reset|closed|failed))\b
      Bnd
        \o Group(Lit(<<"c", "o", "n", "n", "e", "c", "t", "i", "o", "n">>) \o Rep("\\s", 1, Unbounded) \o Alt(<<Lit(<<"r", "e", "f", "u", "s", "e", "d">>), Lit(<<"r", "e", "s", "e", "t">>), Lit(<<"c", "l", "o", "s", "e", "d">>), Lit(<<"f", "a", "i", "l", "e", "d">>)>>))
        \o Bnd,
      \* \b(null\s*pointer|none\s*type|undefined)\b
      Bnd
        \o Group(Alt(<<Lit(<<"n", "u", "l", "l">>) \o Rep("\\s", 0, Unbounded) \o Lit(<<"p", "o", "i", "n", "t", "e", "r">>), Lit(<<"n", "o", "n", "e">>) \o Rep("\\s", 0, Unbounded) \o Lit(<<"t", "y", "p", "e">>), Lit(<<"u", "n", "d", "e", "f", "i", "n", "e", "d">>)>>))
        \o Bnd,
      \* \b(out\s+of\s+memory|oom)\b
      Bnd
        \o Group(Alt(<<Lit(<<"o", "u", "t">>) \o Rep("\\s", 1, Unbounded) \o Lit(<<"o", "f">>) \o Rep("\\s", 1, Unbounded) \o Lit(<<"m", "e", "m", "o", "r", "y">>), Lit(<<"o", "o", "m">>)>>))
        \o Bnd,
      \* \b(rate\s*limit|throttl)
      Bnd
        \o Group(Alt(<<Lit(<<"r", "a", "t", "e">>) \o Rep("\\s", 0, Unbounded) \o Lit(<<"l", "i", "m", "i", "t">>), Lit(<<"t", "h", "r", "o", "t", "t", "l">>)>>)),
      \* \b(auth(?:entication|orization)?\s+(?:failed|error))\b
      Bnd
        \o Group(Lit(<<"a", "u", "t", "h">>) \o Opt(<<Lit(<<"e", "n", "t", "i", "c", "a", "t", "i", "o", "n">>), Lit(<<"o", "r", "i", "z", "a", "t", "i", "o", "n">>)>>) \o Rep("\\s", 1, Unbounded) \o Alt(<<Lit(<<"f", "a", "i", "l", "e", "d">>), Lit(<<"e", "r", "r", "o", "r">>)>>))
        \o Bnd,
      \* \b(permission\s+denied|forbidden)\b
      Bnd
        \o Group(Alt(<<Lit(<<"p", "e", "r", "m", "i", "s", "s", "i", "o", "n">>) \o Rep("\\s", 1, Unbounded) \o Lit(<<"d", "e", "n", "i", "e", "d">>), Lit(<<"f", "o", "r", "b", "i", "d", "d", "e", "n">>)>>))
        \o Bnd,
      \* \b(not\s+found|404)\b
      Bnd
        \o Group(Alt(<<Lit(<<"n", "o", "t">>) \o Rep("\\s", 1, Unbounded) \o Lit(<<"f", "o", "u", "n", "d">>), Lit(<<"4", "0", "4">>)>>))
        \o Bnd,
      \* \b(internal\s+(?:server\s+)?error|500)\b
      Bnd
        \o Group(Alt(<<Lit(<<"i", "n", "t", "e", "r", "n", "a", "l">>) \o Rep("\\s", 1, Unbounded) \o Opt(<<Lit(<<"s", "e", "r", "v", "e", "r">>) \o Rep("\\s", 1, Unbounded)>>) \o Lit(<<"e", "r", "r", "o", "r">>), Lit(<<"5", "0", "0">>)>>))
        \o Bnd,
      \* \b(bad\s+(?:request|gateway)|400|502)\b
      Bnd
        \o Group(Alt(<<Lit(<<"b", "a", "d">>) \o Rep("\\s", 1, Unbounded) \o Alt(<<Lit(<<"r", "e", "q", "u", "e", "s", "t">>), Lit(<<"g", "a", "t", "e", "w", "a", "y">>)>>), Lit(<<"4", "0", "0">>), Lit(<<"5", "0", "2">>)>>))
        \o Bnd,
      \* \b(deadlock|race\s+condition)\b
      Bnd
        \o Group(Alt(<<Lit(<<"d", "e", "a", "d", "l", "o", "c", "k">>), Lit(<<"r", "a", "c", "e">>) \o Rep("\\s", 1, Unbounded) \o Lit(<<"c", "o", "n", "d", "i", "t", "i", "o", "n">>)>>))
        \o Bnd,
      \* \b(memory\s+leak)\b
      Bnd
        \o Group(Lit(<<"m", "e", "m", "o", "r", "y">>) \o Rep("\\s", 1, Unbounded) \o Lit(<<"l", "e", "a", "k">>))
        \o Bnd,
      \* \b(stack\s+overflow)\b
      Bnd
        \o Group(Lit(<<"s", "t", "a", "c", "k">>) \o Rep("\\s", 1, Unbounded) \o Lit(<<"o", "v", "e", "r", "f", "l", "o", "w">>))
        \o Bnd >>

EntityTypes == {PATTERNS[i].type : i \in 1..Len(PATTERNS)}
PatternsOf(type) ==
    PATTERNS[CHOOSE i \in 1..Len(PATTERNS) : PATTERNS[i].type = type].patterns

\* mutant: every value is appended, seen before or not
AppendAll(matches, values) == matches \o values

\* if value not in matches: matches.append(value), for the values in turn
RECURSIVE AppendNew(_, _)
AppendNew(matches, values) ==
    IF values = <<>> THEN matches
    ELSE AppendNew(IF \E i \in 1..Len(matches) : matches[i] = Head(values)
                   THEN matches ELSE Append(matches, Head(values)),
                   Tail(values))

\* the matches of one entity type: pattern after pattern, match after match
RECURSIVE MatchesOf(_, _, _)
MatchesOf(text, patterns, matches) ==
    IF patterns = <<>> THEN matches
    ELSE MatchesOf(text, Tail(patterns),
                   AppendNew(matches, FindAll(text, Head(patterns))))

\* extract: the dict of the entity types that have a match
Extract(text) ==
    LET found == [type \in EntityTypes |-> MatchesOf(text, PatternsOf(type), <<>>)]
    IN  [type \in {u \in EntityTypes : found[u] # <<>>} |-> found[type]]

\* keywords after the loop of extract_error_keywords: the matches of the
\* patterns in turn
RECURSIVE KeywordsFrom(_, _)
KeywordsFrom(text, patterns) ==
    IF patterns = <<>> THEN <<>>
    ELSE FindAll(text, Head(patterns)) \o KeywordsFrom(text, Tail(patterns))

\* the lists that hold each element of S once
Orders(S) ==
    {l \in [1..Cardinality(S) -> S] : \A i, j \in 1..Cardinality(S) : l[i] = l[j] => i = j}

\* extract_error_keywords returns list(set(keywords)): the distinct keywords in
\* the order the set iterates, which the hash seed of the process decides
ExtractErrorKeywords(text) == Orders(Range(KeywordsFrom(text, error_patterns)))

\* extract called on its own: the text is made of at most MaxFrags of these
\* fragments, a space between two
FragTraceId == <<"t", "r", "a", "c", "e", "_", "i", "d", "=", "a", "b", "c", "1", "2", "3">>
FragTimeout == <<"t", "i", "m", "e", "o", "u", "t", "=", "3", "0", "s">>
FragXTraceId == <<"x", "-", "t", "r", "a", "c", "e", "-", "i", "d", ":", " ", "a", "b", "c", "1", "2", "3">>
FragUid == <<"u", "i", "d", "=", "7">>
FragUserId9 == <<"u", "s", "e", "r", "_", "i", "d", "=", "9">>
FragUserId7 == <<"u", "s", "e", "r", "_", "i", "d", "=", "7">>
FragErrorCode == <<"e", "r", "r", "o", "r", "_", "c", "o", "d", "e", "=", "5", "0", "0">>
FragCode == <<"c", "o", "d", "e", "=", "4", "0", "4">>
FragAddress == <<"1", "0", ".", "0", ".", "0", ".", "1", ":", "8", "0", "8", "0">>
FragMsTimeout == <<"3", "0", " ", "m", "s", " ", "t", "i", "m", "e", "o", "u", "t">>
FragGet == <<"G", "E", "T", " ", "/", "a", "p", "i", "/", "x">>

Fragments == {FragTraceId, FragTimeout, FragXTraceId, FragUid, FragUserId9, FragUserId7,
              FragErrorCode, FragCode, FragAddress, FragMsTimeout, FragGet}

RECURSIVE EntityTexts(_)
EntityTexts(n) ==
    IF n = 0 THEN {<<>>}
    ELSE EntityTexts(n - 1) \cup Fragments \cup
         {t \o <<" ">> \o f : t \in EntityTexts(n - 1) \ {<<>>}, f \in Fragments}

ExtractCall ==
    /\ pc = "call_extract"
    /\ entities' = Extract(input_text)
    /\ pc' = "extracted"
    /\ UNCHANGED <<retrieverVars, searchVars, serviceVars, stack_trace, parsed, bug_input,
                   processed, logVars, input_text>>

InitExtract ==
    /\ pc = "call_extract"
    /\ input_text \in EntityTexts(MaxFrags)
    /\ entities = <<>>
    /\ IdleLogs
    /\ stack_trace = <<>>
    /\ parsed = NoParse
    /\ bug_input = NoBugInput
    /\ processed = NoResult
    /\ IdleRetriever
    /\ IdleService

NextExtract == ExtractCall

SpecExtract == InitExtract /\ [][NextExtract]_vars

----------------------------------------------------------------------------
(* Preprocessor.process *)

\* the inputs of process
TraceAb1 == <<"a", "b", "1">>

LogLines ==
    { <<"2", "0", "2", "4", "-", "0", "1", "-", "0", "2", "T", "0", "3", ":", "0", "4", ":", "0", "5", " ", "a", "b", "1">>,
      <<"2", "0", "2", "4", "-", "0", "1", "-", "0", "2", " ", "0", "9", ":", "0", "0", ":", "0", "0", " ", "a", "b", "1", "2">>,
      <<"0", "1", "/", "J", "a", "n", "/", "2", "0", "2", "4", ":", "0", "0", ":", "0", "0", ":", "0", "0", " ", "x", "y", "9">>,
      <<"b", "o", "o", "t", " ", "a", "b", "1">>,
      <<"h", "a", "l", "t", " ", "x", "y", "9">> }

RECURSIVE LogLists(_)
LogLists(n) ==
    IF n = 0 THEN {<<>>}
    ELSE LogLists(n - 1) \cup
         {Append(t, l) : t \in {u \in LogLists(n - 1) : Len(u) = n - 1}, l \in LogLines}

StackSamples ==
    { << Line("pyframe", PathSitePackages, 7, FnCall, <<>>),
         Line("pyframe", PathService, 3, FnHandle, <<>>),
         Line("code", <<>>, 0, <<>>, CodeText),
         Line("exc", <<>>, 0, TypeValueError, MsgBadValue) >>,
      << Line("javaframe", FileSun, 4, MethodSunGo, <<>>) >> }

BugInputs ==
    { b \in [error_message : {Missing, Some(MsgRedisTimeout)},
             stack_trace : {Missing, None, Some(<<>>)} \cup {Some(t) : t \in StackSamples},
             trace_id : {Missing, None, Some(<<>>), Some(TraceAb1)},
             context : {Missing, None, Some(<<>>)},
             user_description : {Missing, None, Some(TextSlow)},
             related_logs : {Missing, None} \cup {Some(l) : l \in LogLists(MaxLogs)}] :
        b.context.tag # "value" => b.user_description = Missing }

\* the decimal digits of a line number
RECURSIVE Digits(_)
Digits(n) ==
    IF n < 10 THEN <<DigitChars[n + 1]>>
    ELSE Digits(n \div 10) \o <<DigitChars[(n % 10) + 1]>>

\* the text of one line of a stack trace
LineText(l) ==
    CASE l.shape = "pyframe" ->
            <<" ", " ", "F", "i", "l", "e", " ", "\"">> \o l.file \o <<"\"", ",", " ", "l", "i", "n", "e", " ">> \o Digits(l.lineno)
                \o <<",", " ", "i", "n", " ">> \o l.name
      [] l.shape = "javaframe" ->
            <<" ", " ", " ", " ", "a", "t", " ">> \o l.name \o <<"(">> \o l.file \o <<":">>
                \o Digits(l.lineno) \o <<")">>
      [] l.shape = "code" -> <<" ", " ", " ", " ">> \o l.text
      [] l.shape = "exc" -> l.name \o <<":", " ">> \o l.text
      [] l.shape = "header" -> <<"T", "r", "a", "c", "e", "b", "a", "c", "k", " ", "(", "m", "o", "s", "t", " ", "r", "e", "c", "e", "n", "t", " ", "c", "a", "l", "l", " ", "l", "a", "s", "t", ")", ":">>
      [] l.shape = "blank" -> <<" ">>

\* sep.join(parts)
RECURSIVE Join(_, _)
Join(parts, sep) ==
    IF parts = <<>> THEN <<>>
    ELSE IF Len(parts) = 1 THEN parts[1]
    ELSE parts[1] \o sep \o Join(Tail(parts), sep)

\* the stack trace as the str it is: its lines, a newline between two
StackText(lines) == Join([i \in 1..Len(lines) |-> LineText(lines[i])], <<"\n">>)

\* result["parsed_stack"]: the dict built from the ParsedStackTrace
ParsedStackDict(p) ==
    [exception_type |-> p.exception_type,
     exception_message |-> p.exception_message,
     frames |-> p.frames,
     root_frame |-> IF p.root_frame # 0
                    THEN Some([file |-> p.frames[p.root_frame].file,
                               line |-> p.frames[p.root_frame].line,
                               function |-> p.frames[p.root_frame].function])
                    ELSE None]

\* [f for f in frames if not f["is_framework"]]
BusinessFrames(frames) == SelectSeq(frames, LAMBDA f : ~f.is_framework)

\* the exception process raises on its way, "none" when it returns:
\* None.get(...) on a null context, then " ".join of a list holding None
RaisedByProcess(b) ==
    IF Get(b.context, <<>>).tag = "none" THEN "AttributeError"
    ELSE IF \/ Get(b.error_message, <<>>).tag = "none"
            \/ Get(b.stack_trace, <<>>).tag = "none"
         THEN "TypeError"
         ELSE "none"

\* bug_input.get("context", {}).get("user_description", "") or ""
UserDescription(b) ==
    IF Get(b.context, <<>>).tag = "value" /\ Truthy(Get(b.user_description, <<>>))
    THEN b.user_description.val ELSE <<>>

\* the inputs of the service: the model_dump() of a BugInput, where every key
\* is present, error_message is a str and an absent optional value is None
MsgRefusedTimeout == <<"c", "o", "n", "n", "e", "c", "t", "i", "o", "n", " ", "r", "e", "f", "u", "s", "e", "d", ":", " ", "t", "i", "m", "e", "o", "u", "t", ",", " ", "n", "o", "t", " ", "f", "o", "u", "n", "d", " ", "(", "4", "0", "4", ")">>
MsgDiskFull == <<"d", "i", "s", "k", " ", "f", "u", "l", "l">>

ServiceStacks ==
    {None, Some(<<>>),
     Some(<< Line("pyframe", PathService, 3, FnHandle, <<>>),
             Line("exc", <<>>, 0, TypeValueError, MsgBadValue) >>),
     Some(<< Line("javaframe", FileSun, 4, MethodSunGo, <<>>) >>)}

ServiceInputs ==
    { b \in [error_message : {Some(MsgRedisTimeout), Some(MsgRefusedTimeout), Some(MsgDiskFull)},
             stack_trace : ServiceStacks,
             trace_id : {None},
             context : {None, Some(<<>>)},
             user_description : {Missing, None, Some(TextSlow)},
             related_logs : {Some(<<>>)}] :
        (b.context.tag = "value") = (b.user_description # Missing) }

\* " ".join([error_message, stack_trace, user_description or ""])
TextToAnalyze(b) ==
    Join(<<Get(b.error_message, <<>>).val,
           StackText(Get(b.stack_trace, <<>>).val),
           UserDescription(b)>>, <<" ">>)

\* the texts process analyses, and what the EntityExtractor finds in each
AnalyzedTexts ==
    {TextToAnalyze(b) : b \in {x \in BugInputs \cup ServiceInputs : RaisedByProcess(x) = "none"}}
ExtractOf == [text \in AnalyzedTexts |-> Extract(text)]
ExtractErrorKeywordsOf == [text \in AnalyzedTexts |-> ExtractErrorKeywords(text)]

\* the lists extract_error_keywords may return to process
ErrorKeywords(b) ==
    IF RaisedByProcess(b) = "none" THEN ExtractErrorKeywordsOf[TextToAnalyze(b)]
    ELSE {<<>>}

\* process, extract_error_keywords having returned error_keywords
Process(b, error_keywords) ==
    LET stack == Get(b.stack_trace, <<>>)
        parsed_stack == IF Truthy(stack)
                        THEN Some(ParsedStackDict(Parse(stack.val))) ELSE None
        business == IF Truthy(stack)
                    THEN BusinessFrames(parsed_stack.val.frames) ELSE <<>>
        raised == RaisedByProcess(b)
        related_logs == Get(b.related_logs, <<>>)
        trace == IF b.trace_id.tag = "missing" THEN None ELSE b.trace_id
    IN  IF raised # "none"
        THEN [NoResult EXCEPT !.raised = raised]
        ELSE [raised |-> "none",
              parsed_stack |-> parsed_stack,
              business_frames |-> business,
              entities |-> ExtractOf[TextToAnalyze(b)],
              error_keywords |-> error_keywords,
              aggregated_logs |->
                  IF Truthy(related_logs)
                  THEN SortByTimestamp(AggregateByTrace(related_logs.val, trace))
                  ELSE <<>>,
              text_to_analyze |-> TextToAnalyze(b)]

ProcessCall ==
    /\ pc = "call_process"
    /\ \E error_keywords \in ErrorKeywords(bug_input) :
           processed' = Process(bug_input, error_keywords)
    /\ pc' = "processed"
    /\ UNCHANGED <<retrieverVars, searchVars, serviceVars, stack_trace, parsed, bug_input,
                   pureVars>>

InitProcess ==
    /\ pc = "call_process"
    /\ bug_input \in BugInputs
    /\ processed = NoResult
    /\ stack_trace = <<>>
    /\ parsed = NoParse
    /\ IdlePure
    /\ IdleRetriever
    /\ IdleService

NextProcess == ProcessCall

SpecProcess == InitProcess /\ [][NextProcess]_vars

----------------------------------------------------------------------------
(* DebugAgentService: analyze_bug up to its search query *)

\* the service is run at most MaxRuns times on a bug
MaxRuns == 2

\* _build_search_query: the query, or the exception it raises.
\* preprocessed.get("parsed_stack", {}) is None when process left the key at
\* None, and None has no get.
BuildSearchQuery(b, preprocessed) ==
    IF preprocessed.parsed_stack.tag = "none"
    THEN [raised |-> "AttributeError", query |-> <<>>]
    ELSE LET exception_type == preprocessed.parsed_stack.val.exception_type
             parts == <<b.error_message.val>>
                      \o (IF exception_type # <<>> THEN <<exception_type>> ELSE <<>>)
                      \o SliceTo(preprocessed.error_keywords, 3)
                      \o (IF b.context.tag = "value" /\ Truthy(b.user_description)
                          THEN <<b.user_description.val>> ELSE <<>>)
         IN  [raised |-> "none", query |-> Join(parts, <<" ">>)]

\* analyze_bug, step 2: process has returned, the query is built
BuildSearchQueryCall ==
    /\ pc = "processed"
    /\ processed.raised = "none"
    /\ search_queries' = Append(search_queries, BuildSearchQuery(bug_input, processed))
    /\ pc' = "query_built"
    /\ UNCHANGED <<retrieverVars, searchVars, preVars, analyzerVars>>

\* the service is started anew and given the same bug: a new Python process,
\* whose hash seed is drawn anew
StartAgain ==
    /\ pc = "query_built"
    /\ Len(search_queries) < MaxRuns
    /\ processed' = NoResult
    /\ pc' = "call_process"
    /\ UNCHANGED <<retrieverVars, searchVars, serviceVars, stack_trace, parsed,
                   bug_input, pureVars>>

InitService ==
    /\ pc = "call_process"
    /\ bug_input \in ServiceInputs
    /\ processed = NoResult
    /\ search_queries = <<>>
    /\ IdleAnalyzer
    /\ stack_trace = <<>>
    /\ parsed = NoParse
    /\ IdlePure
    /\ IdleRetriever

NextService == ProcessCall \/ BuildSearchQueryCall \/ StartAgain

SpecService == InitService /\ [][NextService]_vars

----------------------------------------------------------------------------
(* LLMAnalyzer.analyze *)

UnknownText == <<"U", "n", "k", "n", "o", "w", "n">>
NoErrorMessage == <<"N", "o", " ", "e", "r", "r", "o", "r", " ", "m", "e", "s", "s", "a", "g", "e">>

\* what the prompt holds of the arguments:
\*   parsed_stack.get("exception_type", "Unknown") if parsed_stack else "Unknown"
\*   error_info.get("error_message", "No error message")
Prompt(a) ==
    [exception_type |-> IF a.parsed_stack.tag = "value"
                        THEN a.parsed_stack.val.exception_type ELSE UnknownText,
     error_message |-> Get(a.error_message, NoErrorMessage).val]

\* how a call of chat.completions.create ends: with a response, whose text
\* is JSON, plain text or a broken JSON block; with an exception; or
\* cancelled, which is no Exception but a BaseException
ResponseTexts == {"json", "plain", "broken"}
CallOutcomes == [kind : {"response"}, text : ResponseTexts]
                \cup {[kind |-> "Exception", text |-> "none"],
                      [kind |-> "CancelledError", text |-> "none"]}
Pending == [kind |-> "pending", text |-> "none"]

\* the first call: model, the two messages, temperature, response_format
FirstCall(an, a) ==
    [model |-> an.model, temperature |-> an.temperature, prompt |-> Prompt(a),
     response_format |-> TRUE, outcome |-> Pending]

\* mutant: the second call asks for the json_object format again
FallbackSameCall(an, a) == FirstCall(an, a)

\* the second call: the same without response_format
FallbackCall(an, a) == [FirstCall(an, a) EXCEPT !.response_format = FALSE]

\* analyze builds the prompt and awaits the first call
AnalyzeCall ==
    /\ pc = "call_analyze"
    /\ llm_calls' = <<FirstCall(analyzer, analyze_args)>>
    /\ pc' = "await_first"
    /\ UNCHANGED <<retrieverVars, searchVars, preVars, search_queries,
                   analyzer, analyze_args, analysis>>

\* the first call ends: a response goes on to be parsed, an Exception is
\* caught and the second call awaited, a cancellation leaves analyze
FirstCallEnds ==
    /\ pc = "await_first"
    /\ \E outcome \in CallOutcomes :
          LET ended == [llm_calls EXCEPT ![1].outcome = outcome]
          IN  CASE outcome.kind = "response" ->
                      /\ llm_calls' = ended
                      /\ pc' = "parse"
                      /\ analysis' = analysis
                [] outcome.kind = "Exception" ->
                      /\ llm_calls' = Append(ended, FallbackCall(analyzer, analyze_args))
                      /\ pc' = "await_second"
                      /\ analysis' = analysis
                [] outcome.kind = "CancelledError" ->
                      /\ llm_calls' = ended
                      /\ pc' = "analyze_raised"
                      /\ analysis' = [raised |-> "CancelledError", result |-> "none"]
    /\ UNCHANGED <<retrieverVars, searchVars, preVars, search_queries,
                   analyzer, analyze_args>>

\* the second call ends: an Exception is caught by the outer handler, which
\* raises ConnectionError
SecondCallEnds ==
    /\ pc = "await_second"
    /\ \E outcome \in CallOutcomes :
          /\ llm_calls' = [llm_calls EXCEPT ![2].outcome = outcome]
          /\ CASE outcome.kind = "response" ->
                      /\ pc' = "parse"
                      /\ analysis' = analysis
               [] outcome.kind = "Exception" ->
                      /\ pc' = "analyze_raised"
                      /\ analysis' = [raised |-> "ConnectionError", result |-> "none"]
               [] outcome.kind = "CancelledError" ->
                      /\ pc' = "analyze_raised"
                      /\ analysis' = [raised |-> "CancelledError", result |-> "none"]
    /\ UNCHANGED <<retrieverVars, searchVars, preVars, search_queries,
                   analyzer, analyze_args>>

\* _parse_response: JSON gives the result, a text without a JSON block the
\* fallback result, a block that is no JSON raises out of json.loads
ParseResponse ==
    /\ pc = "parse"
    /\ LET text == llm_calls[Len(llm_calls)].outcome.text
       IN  CASE text = "json" ->
                   /\ analysis' = [raised |-> "none", result |-> "parsed"]
                   /\ pc' = "analyzed"
             [] text = "plain" ->
                   /\ analysis' = [raised |-> "none", result |-> "fallback"]
                   /\ pc' = "analyzed"
             [] text = "broken" ->
                   /\ analysis' = [raised |-> "JSONDecodeError", result |-> "none"]
                   /\ pc' = "analyze_raised"
    /\ UNCHANGED <<retrieverVars, searchVars, preVars, search_queries,
                   analyzer, analyze_args, llm_calls>>

Analyzers ==
    [model : {"gpt-4-turbo-preview", "glm-4"}, temperature : {0, 2}]

AnalyzeArgs ==
    [parsed_stack : {None, Some([exception_type |-> TypeValueError]),
                     Some([exception_type |-> UnknownExceptionType])},
     error_message : {Missing, Some(MsgRedisTimeout), Some(MsgDiskFull)}]

InitAnalyze ==
    /\ pc = "call_analyze"
    /\ analyzer \in Analyzers
    /\ analyze_args \in AnalyzeArgs
    /\ llm_calls = <<>>
    /\ analysis = NoAnalysis
    /\ search_queries = <<>>
    /\ IdlePreprocessor
    /\ IdleRetriever

NextAnalyze == AnalyzeCall \/ FirstCallEnds \/ SecondCallEnds \/ ParseResponse

SpecAnalyze == InitAnalyze /\ [][NextAnalyze]_vars

\* a LogAggregator method called with any list of lines and any trace_id
TraceIds == {None, Some(<<>>), Some(TraceAb1)}

InitLogs ==
    /\ pc = "call_logs"
    /\ logs \in LogLists(MaxLogs)
    /\ trace_id \in TraceIds
    /\ log_result = <<>>
    /\ IdleEntities
    /\ stack_trace = <<>>
    /\ parsed = NoParse
    /\ bug_input = NoBugInput
    /\ processed = NoResult
    /\ IdleRetriever
    /\ IdleService

NextLogs == AggregateByTraceCall \/ SortByTimestampCall

SpecLogs == InitLogs /\ [][NextLogs]_vars

----------------------------------------------------------------------------
(* What the claims speak of, read off the state *)

Merged == pc = "merged"

InputRefs == DOMAIN raw

\* the entry of the mapping that lists r, and r's place in that list
EntryOf(r) == CHOOSE i \in 1..Len(results) : r \in Range(results[i].items)
PlaceOf(r) == CHOOSE j \in 1..Len(results[EntryOf(r)].items) :
                 results[EntryOf(r)].items[j] = r
ChannelOf(r) == results[EntryOf(r)].source

\* r1 is enumerated before r2 when the mapping is flattened
FlatBefore(r1, r2) ==
    \/ EntryOf(r1) < EntryOf(r2)
    \/ EntryOf(r1) = EntryOf(r2) /\ PlaceOf(r1) < PlaceOf(r2)

\* the same, with the channels taken in the order code, case, log_pattern
ChannelRank(c) == CASE c = "code" -> 1 [] c = "case" -> 2 [] OTHER -> 3
CanonicalBefore(r1, r2) ==
    \/ ChannelRank(ChannelOf(r1)) < ChannelRank(ChannelOf(r2))
    \/ ChannelOf(r1) = ChannelOf(r2) /\ PlaceOf(r1) < PlaceOf(r2)

\* raw score times channel weight, in thousandths
Product(r) == raw[r].score * WeightOf(weights, ChannelOf(r))

\* the deduplication key as the specification words it
PrefixKey(item) ==
    IF Len(item.content) = 0 THEN item.id
    ELSE [i \in 1..Min(KeyLen, Len(item.content)) |-> item.content[i]]

\* r1 is ranked before r2: higher weighted score, ties in flattening order
RankedBefore(r1, r2) ==
    \/ Product(r1) > Product(r2)
    \/ Product(r1) = Product(r2) /\ FlatBefore(r1, r2)

IsFirstOfKey(r) ==
    \A q \in InputRefs :
        (q # r /\ PrefixKey(raw[q]) = PrefixKey(raw[r])) => RankedBefore(r, q)

----------------------------------------------------------------------------
(* C2: for every input mapping and every top_k >= 0, merge_and_rerank      *)
(* returns at most top_k items and no two of them share the deduplication  *)
(* key (first 100 characters of content, or the id when content is empty). *)
C2_AtMostTopKDistinctKeys ==
    (Merged /\ top_k >= 0) =>
        /\ Len(merged) <= top_k
        /\ \A i, j \in 1..Len(merged) :
              i # j => PrefixKey(heap[merged[i]]) # PrefixKey(heap[merged[j]])

\* two long contents with the same 100-character prefix came in, one came out
C2_Witness ==
    /\ Merged /\ top_k = 2 /\ Len(merged) = 1
    /\ \E r, q \in InputRefs :
          /\ raw[r].content = LongContentP
          /\ raw[q].content = LongContentQ

(* C3: every returned item, from channel c with raw score s, has the score *)
(* field s * weight[c] after the merge.                                    *)
C3_ScoreIsWeighted ==
    Merged =>
        \A i \in 1..Len(merged) :
            ChannelOf(merged[i]) \in DOMAIN weights =>
                heap[merged[i]].score * WeightDen = Product(merged[i])

C3_Witness ==
    /\ Merged /\ weights = DefaultWeights
    /\ \E i \in 1..Len(merged) :
          /\ raw[merged[i]].score = 60 /\ ChannelOf(merged[i]) = "case"
          /\ heap[merged[i]].score = 30

(* C4 as stated: the output is in descending weighted score, and items of  *)
(* equal weighted score are in the order code, case, log_pattern of their  *)
(* channels, then in per-channel order.                                    *)
C4_TiesInCodeCaseLogOrder ==
    Merged =>
        \A i, j \in 1..Len(merged) :
            i < j =>
                \/ Product(merged[i]) > Product(merged[j])
                \/ /\ Product(merged[i]) = Product(merged[j])
                   /\ CanonicalBefore(merged[i], merged[j])

(* C4 as amended: the output is in descending weighted score, and items of *)
(* equal weighted score are in the order in which the input mapping        *)
(* enumerates its keys, then in per-channel order.                         *)
C4_TiesInMappingOrder ==
    Merged =>
        \A i, j \in 1..Len(merged) :
            i < j => RankedBefore(merged[i], merged[j])

\* a tie between a code item and a case item, the mapping listing case first
C4_Witness ==
    /\ Merged /\ Len(merged) = 2
    /\ Product(merged[1]) = Product(merged[2])
    /\ ChannelOf(merged[1]) = "case" /\ ChannelOf(merged[2]) = "code"
    /\ raw[merged[1]].score # raw[merged[2]].score

(* C5: of the input items that share a deduplication key, the one kept is  *)
(* the first in the ranked order, and every later one is discarded.        *)
C5_FirstOfKeyKept ==
    Merged =>
        /\ \A i \in 1..Len(merged) : IsFirstOfKey(merged[i])
        /\ \A r \in InputRefs :
              ~IsFirstOfKey(r) => r \notin Range(merged)
        /\ top_k >= Cardinality(InputRefs) =>
              \A r \in InputRefs : IsFirstOfKey(r) => r \in Range(merged)

\* the duplicate enumerated second is ranked first, is kept; the other dropped
C5_Witness ==
    /\ Merged
    /\ \E r, q \in InputRefs :
          /\ FlatBefore(r, q)
          /\ PrefixKey(raw[r]) = PrefixKey(raw[q])
          /\ Product(q) > Product(r)
          /\ q \in Range(merged) /\ r \notin Range(merged)

\* the input, flattened, is deduplicated, sorted descending and fits in top_k
SortedDedupedInput ==
    /\ Cardinality(InputRefs) <= top_k
    /\ \A r, q \in InputRefs :
          r # q => PrefixKey(raw[r]) # PrefixKey(raw[q])
    /\ \A r, q \in InputRefs :
          FlatBefore(r, q) => raw[r].score >= raw[q].score

InputOrderKept ==
    \A i, j \in 1..Len(merged) : i < j => FlatBefore(merged[i], merged[j])

AllWeightsOne == \A c \in Sources : WeightOf(weights, c) = WeightDen

----------------------------------------------------------------------------
(* search and retrieve, read off the state *)

SearchReturned == pc \in {"search_returned", "call_merge"}

EnabledChannels == {c \in Sources : enable[c]}
FailedChannels == {c \in EnabledChannels : index[c].fails}

\* the enabled channels in the order code, case, log_pattern
EnabledInOrder == SelectSeq(ChannelOrder, LAMBDA c : enable[c])
SucceededInOrder == SelectSeq(ChannelOrder, LAMBDA c : enable[c] /\ ~index[c].fails)

TaskOf(c) == CHOOSE i \in 1..Len(task_sources) : task_sources[i] = c

\* the items of a list of references, as they are now
ValuesOf(items) == [j \in 1..Len(items) |-> heap[items[j]]]

\* what a channel's search returns for the call's top_k, from its index alone
ReturnedBy(c) == ChannelSearch(c, index[c].corpus, top_k)
ReturnedRefs(c) ==
    IF index[c].fails THEN <<>>
    ELSE [j \in 1..Len(ReturnedBy(c)) |-> RefOf(c, j)]

\* mapping and objects as the call's arguments and the channels' outcomes fix them
OutcomeMapping ==
    [i \in 1..Len(EnabledInOrder) |->
        [source |-> EnabledInOrder[i], items |-> ReturnedRefs(EnabledInOrder[i])]]
OutcomeHeap ==
    [r \in UNION {Range(ReturnedRefs(c)) : c \in EnabledChannels} |->
        ReturnedBy(r[1])[r[2]]]

\* the mapping of the channels whose search returned, with the lists they returned
SucceededMapping ==
    [i \in 1..Len(SucceededInOrder) |->
        [source |-> SucceededInOrder[i],
         items |-> task_result[TaskOf(SucceededInOrder[i])].items]]

(* C1: if the search of exactly one enabled channel raises, search does    *)
(* not raise, the mapping it returns holds an empty list for that channel  *)
(* and, for every other enabled channel, exactly the list that channel's   *)
(* search returned: same items, same order, unmodified.                    *)
C1_OneFailureIsolated ==
    Cardinality(FailedChannels) = 1 =>
        /\ pc # "raised"
        /\ SearchReturned =>
              \A c \in EnabledChannels :
                  \E i \in 1..Len(results) :
                      /\ results[i].source = c
                      /\ \A k \in 1..Len(results) : results[k].source = c => k = i
                      /\ IF index[c].fails
                         THEN results[i].items = <<>>
                         ELSE /\ results[i].items = task_result[TaskOf(c)].items
                              /\ ValuesOf(results[i].items) = ReturnedBy(c)

\* the failing task ended first, the two others returned non-empty lists
C1_Witness ==
    /\ pc = "search_returned"
    /\ Cardinality(FailedChannels) = 1
    /\ Len(finished) = 3
    /\ task_sources[finished[1]] \in FailedChannels
    /\ \A i \in 1..Len(results) :
          results[i].source \notin FailedChannels => Len(results[i].items) >= 1

(* C7: for fixed per-channel outcomes, the mapping search returns and the  *)
(* list retrieve returns are the same whatever the order in which the      *)
(* channel tasks start and complete.                                       *)
C7_IndependentOfSchedule ==
    /\ SearchReturned => (results = OutcomeMapping /\ heap = OutcomeHeap)
    /\ (entry = "retrieve" /\ pc = "merged") =>
          /\ merged = MergedRefs(OutcomeHeap, weights, OutcomeMapping, top_k)
          /\ heap = HeapAfterMerge(OutcomeHeap, weights, OutcomeMapping)

\* the tasks completed in the order log_pattern, code, case
C7_Witness ==
    /\ entry = "retrieve" /\ pc = "merged"
    /\ finished = <<3, 1, 2>>
    /\ FailedChannels = {}
    /\ Len(merged) = 2
    /\ merged[1][1] # merged[2][1]

(* C9: retrieve never raises because of channel failures: for any subset   *)
(* of channels whose search raises it returns merge_and_rerank, with the   *)
(* same top_k, of the results of the channels that succeeded, and the      *)
(* empty list when all channels fail.                                      *)
C9_RetrieveMergesSucceeded ==
    entry = "retrieve" =>
        /\ pc # "raised"
        /\ pc = "merged" =>
              /\ merged = MergedRefs(raw, weights, SucceededMapping, top_k)
              /\ heap = HeapAfterMerge(raw, weights, SucceededMapping)
              /\ FailedChannels = Sources => merged = <<>>

\* two channels raised, the third one's results are returned
C9_Witness ==
    /\ entry = "retrieve" /\ pc = "merged"
    /\ Cardinality(FailedChannels) = 2
    /\ Len(merged) = 2

----------------------------------------------------------------------------
(* StackParser.parse, read off the state *)

Parsed == pc = "parsed"

(* C10: in every ParsedStackTrace that parse returns, root_frame is the    *)
(* last frame of frames among those with is_framework false, and it is     *)
(* absent exactly when no frame has is_framework false.                    *)
C10_RootIsLastBusinessFrame ==
    Parsed =>
        LET fs == parsed.frames
            root == parsed.root_frame
        IN  /\ root \in 0..Len(fs)
            /\ root = 0 <=> \A i \in 1..Len(fs) : fs[i].is_framework
            /\ root # 0 =>
                  /\ ~fs[root].is_framework
                  /\ \A j \in (root + 1)..Len(fs) : fs[j].is_framework

\* frames business, framework, business: the root is the third
C10_Witness ==
    /\ Parsed
    /\ Len(parsed.frames) = 3
    /\ ~parsed.frames[1].is_framework
    /\ parsed.frames[2].is_framework
    /\ ~parsed.frames[3].is_framework
    /\ parsed.root_frame = 3

----------------------------------------------------------------------------
(* Preprocessor.process, read off the state *)

Processed == pc = "processed"

\* an optional input is absent: its key is missing or its value is None
Absent(field) == field.tag \in {"missing", "none"}

(* C8: process never raises when an optional input is absent: for a bug    *)
(* input whose stack trace, trace identifier, user description, context or *)
(* related logs are missing or null it returns a result whose fields are   *)
(* the defaults (parsed_stack absent, business_frames and aggregated_logs  *)
(* empty).                                                                 *)
C8_AbsentInputNeverRaises ==
    Processed =>
        /\ processed.raised = "none"
        /\ Absent(bug_input.stack_trace) =>
              (processed.parsed_stack = None /\ processed.business_frames = <<>>)
        /\ Absent(bug_input.related_logs) => processed.aggregated_logs = <<>>

----------------------------------------------------------------------------
(* StackParser.parse of an empty text *)

Sentinel ==
    [exception_type |-> UnknownType, exception_message |-> NoStackTraceProvided,
     frames |-> <<>>, root_frame |-> 0]

(* C11: parse of an empty stack text returns the sentinel: exception_type  *)
(* "Unknown", exception_message "No stack trace provided", no frames and   *)
(* no root frame; it returns, it does not raise.                           *)
C11_EmptyTextGivesSentinel ==
    (Parsed /\ stack_trace = <<>>) => parsed = Sentinel

C11_Witness ==
    /\ Parsed
    /\ stack_trace = <<>>
    /\ parsed.exception_type = UnknownType
    /\ parsed.frames = <<>>

----------------------------------------------------------------------------
(* LogAggregator.aggregate_by_trace *)

Aggregated == pc = "aggregated"

(* C12: aggregate_by_trace(logs, trace_id) with an absent trace_id returns *)
(* logs unchanged: the same lines in the same order, nothing filtered out. *)
C12_AbsentTraceIdIsIdentity ==
    (Aggregated /\ trace_id = None) => log_result = logs

\* two lines, one of them without the trace id and without a timestamp
C12_Witness ==
    /\ Aggregated
    /\ trace_id = None
    /\ Len(logs) = 2
    /\ \E i \in 1..2 : ~IsDigit(logs[i][1])
    /\ \E i \in 1..2 : ~Contains(logs[i], TraceAb1)
    /\ log_result = logs

----------------------------------------------------------------------------
(* The queries search gives to the channels *)

\* the channels' searches have been called
Called == pc # "start" /\ entry \in {"search", "retrieve"}

\* s or the fallback when s is None or empty
OrElse(s, fallback) == IF s.tag = "value" /\ s.val # <<>> THEN s.val ELSE fallback

(* C14: search builds the per-channel queries as: code channel =           *)
(* error_message (query when error_message is absent or empty), followed,  *)
(* after one space, by the first 500 characters of stack_trace when        *)
(* stack_trace is present and not empty; case channel = query unmodified;  *)
(* log-pattern channel = error_message (query when it is absent or         *)
(* empty).  Each enabled channel, and no other, is called with its own     *)
(* query and the caller's top_k.                                           *)
C14_PerChannelQueries ==
    Called =>
        /\ Len(task_call) = Len(task_sources)
        /\ Range(task_sources) = {c \in Sources : enable[c]}
        /\ \A i \in 1..Len(task_call) :
              /\ task_call[i].top_k = top_k
              /\ task_sources[i] = "case" => task_call[i].query = search_args.query
              /\ task_sources[i] = "log_pattern" =>
                    task_call[i].query =
                        OrElse(search_args.error_message, search_args.query)
              /\ task_sources[i] = "code" =>
                    LET stack == OrElse(search_args.stack_trace, <<>>)
                        first == SubSeq(stack, 1, Min(QueryStackLen, Len(stack)))
                    IN  task_call[i].query =
                            OrElse(search_args.error_message, search_args.query)
                            \o (IF stack = <<>> THEN <<>> ELSE <<" ">> \o first)

\* a stack trace longer than 500 characters, and no error message
C14_Witness ==
    /\ Called
    /\ Len(search_args.stack_trace.val) > QueryStackLen
    /\ search_args.error_message = None
    /\ search_args.query # <<>>
    /\ \E i \in 1..Len(task_call) :
          /\ task_sources[i] = "code"
          /\ Len(task_call[i].query) = Len(search_args.query) + 1 + QueryStackLen

----------------------------------------------------------------------------
(* The weight merge_and_rerank gives a channel *)

\* the table passed at construction has an entry for channel c
HasEntry(c) == weights_arg.tag = "value" /\ c \in DOMAIN weights_arg.val

\* the score of the i-th returned item is its raw score times w (w in tenths)
ScoredWith(i, w) == heap[merged[i]].score * WeightDen = raw[merged[i]].score * w

(* C15 as stated: each raw score is multiplied by its channel's weight     *)
(* from the table passed at construction, and a channel with no entry in   *)
(* that table (or a retriever constructed without a table) uses the weight *)
(* of the default table: code 0.3, case 0.5, log_pattern 0.2.              *)
C15_MissingEntryUsesDefaultTable ==
    Merged =>
        \A i \in 1..Len(merged) :
            LET c == ChannelOf(merged[i])
            IN  ScoredWith(i, IF HasEntry(c) THEN weights_arg.val[c]
                              ELSE DefaultWeights[c])

(* C15 as the code has it: each raw score is multiplied by its channel's   *)
(* weight from the table passed at construction; a channel with no entry   *)
(* in a table that has other entries uses the weight 0.1; a retriever      *)
(* constructed without a table, or with an empty one, uses code 0.3, case  *)
(* 0.5, log_pattern 0.2.                                                   *)
C15_MissingEntryUsesOneTenth ==
    Merged =>
        \A i \in 1..Len(merged) :
            LET c == ChannelOf(merged[i])
            IN  ScoredWith(i, IF HasEntry(c) THEN weights_arg.val[c]
                              ELSE IF weights_arg.tag = "value"
                                      /\ DOMAIN weights_arg.val # {}
                                   THEN DefaultWeight
                                   ELSE DefaultWeights[c])

\* a table with the code entry only, and a case item of raw score 0.60
C15_Witness ==
    /\ Merged
    /\ weights_arg = Some(CodeOnlyWeights)
    /\ \E i \in 1..Len(merged) :
          /\ ChannelOf(merged[i]) = "case"
          /\ raw[merged[i]].score = 60
          /\ heap[merged[i]].score = 6

----------------------------------------------------------------------------
(* The range of the score field *)

\* every RetrievalResult that exists has its score in [0, 1]
ScoresInUnitInterval ==
    \A r \in DOMAIN heap : heap[r].score >= 0 /\ heap[r].score <= ScoreDen

\* every weight the retriever can apply is in [0, 1]
WeightsInUnitInterval ==
    \A c \in Sources : WeightOf(weights, c) >= 0 /\ WeightOf(weights, c) <= WeightDen

(* C16 as stated: the score field of every RetrievalResult lies in [0,1]   *)
(* at all times: as produced by a channel from a distance >= 0, and after  *)
(* merge_and_rerank has overwritten it with the weighted score, whatever   *)
(* weight table the retriever was constructed with.                        *)
C16_ScoreInUnitInterval ==
    entry \in {"search", "retrieve"} => ScoresInUnitInterval

(* C16 as the code has it: the score field of every RetrievalResult lies   *)
(* in [0,1] at all times, as produced by a channel from a distance >= 0    *)
(* and after merge_and_rerank has overwritten it with the weighted score,  *)
(* when every weight the retriever applies lies in [0,1].                  *)
C16_ScoreInUnitIntervalForUnitWeights ==
    (entry \in {"search", "retrieve"} /\ WeightsInUnitInterval)
        => ScoresInUnitInterval

\* retrieve returned an item a channel made from a distance above 0, and
\* its score was overwritten with the weighted one
C16_Witness ==
    /\ Merged /\ entry = "retrieve"
    /\ WeightsInUnitInterval
    /\ \E i \in 1..Len(merged) :
          /\ raw[merged[i]].score = Similarity(25)
          /\ heap[merged[i]].score < raw[merged[i]].score
          /\ heap[merged[i]].score > 0

----------------------------------------------------------------------------
(* The join of the channel tasks *)

\* search is past its await of gather
PastGather == pc \in {"organize", "search_returned", "call_merge", "merged", "raised"}

\* task j is where it was, or one step further on its own way
OwnStep(j) ==
    \/ task_state'[j] = task_state[j] /\ task_result'[j] = task_result[j]
    \/ task_state[j] = "created" /\ task_state'[j] = "running"
                                 /\ task_result'[j] = task_result[j]
    \/ task_state[j] = "running" /\ task_state'[j] = "done"

\* a step of the join moves at most one task, and that one along its own way
TasksIndependent ==
    (pc = "gather" /\ pc' = "gather") =>
        /\ DOMAIN task_state' = DOMAIN task_state
        /\ \A j \in DOMAIN task_state : OwnStep(j)
        /\ \A j, k \in DOMAIN task_state :
              (task_state'[j] # task_state[j] /\ task_state'[k] # task_state[k])
                  => j = k

\* whatever the other tasks did, a task that has not finished can go on
CanGoOn ==
    pc = "gather" =>
        \A j \in DOMAIN task_state :
            /\ task_state[j] = "created" => ENABLED TaskStart(j)
            /\ task_state[j] = "running" => ENABLED TaskFinish(j)

(* C17: search returns only after the search of every enabled channel has  *)
(* finished (returned or raised), and the failure of one channel's task    *)
(* never cancels another channel's task nor keeps it from running to       *)
(* completion: the join is not fail-fast.                                  *)
C17_JoinWaitsForAll ==
    /\ [](PastGather => /\ AllDone
                        /\ Len(finished) = Len(task_sources)
                        /\ Range(task_sources) = {c \in Sources : enable[c]})
    /\ [][TasksIndependent]_vars
    /\ []CanGoOn

\* the first task to finish raised, another returned its items after it,
\* and search returned them
C17_Witness ==
    /\ SearchReturned
    /\ Len(finished) >= 2
    /\ task_result[finished[1]].exc
    /\ ~task_result[finished[2]].exc
    /\ task_result[finished[2]].items # <<>>

----------------------------------------------------------------------------
(* Termination of search and retrieve *)

\* the call made (search or retrieve) has returned
Returned == pc = (IF entry = "retrieve" THEN "merged" ELSE "search_returned")

\* the search of channel c has returned or raised
ChannelFinished(c) ==
    \E i \in DOMAIN task_sources : task_sources[i] = c /\ task_state[i] = "done"

\* search has been entered and every enabled channel's search has finished
EnabledChannelsFinished ==
    pc # "start" /\ \A c \in Sources : enable[c] => ChannelFinished(c)

(* C18: retrieval has no timeout or cancellation of its own: if every      *)
(* enabled channel's search eventually finishes (returns or raises), the   *)
(* call eventually returns; and as long as some enabled channel's search   *)
(* has not finished, it does not return.                                   *)
C18_ReturnsWhenChannelsFinish ==
    /\ <>EnabledChannelsFinished => <>Returned
    /\ [](Returned => EnabledChannelsFinished)

\* retrieve has returned, all three channels having finished, one by raising
C18_Witness ==
    /\ Returned /\ entry = "retrieve"
    /\ \A c \in Sources : ChannelFinished(c)
    /\ \E i \in DOMAIN task_result : task_result[i].exc
    /\ merged # <<>>

----------------------------------------------------------------------------
(* EntityExtractor.extract *)

Extracted == pc = "extracted"

\* group 1 of every match of every alternative of the type, alternative after
\* alternative and left to right within one
RECURSIVE SeenFrom(_)
SeenFrom(patterns) ==
    IF patterns = <<>> THEN <<>>
    ELSE FindAll(input_text, Head(patterns)) \o SeenFrom(Tail(patterns))

Seen(type) == SeenFrom(PatternsOf(type))

\* where v is seen first
FirstSeen(type, v) ==
    CHOOSE i \in 1..Len(Seen(type)) :
        /\ Seen(type)[i] = v
        /\ \A j \in 1..(i - 1) : Seen(type)[j] # v

ExampleText == FragTraceId \o <<" ">> \o FragTimeout

(* C13: extract returns, for each entity type, the matched values of all   *)
(* its regex alternatives in first-seen order with exact duplicates        *)
(* removed, and a type with no match is not a key of the result: every     *)
(* list of the result is non-empty and duplicate-free;                     *)
(* extract("trace_id=abc123 timeout=30s") is exactly                       *)
(* {trace_id: [abc123], timeout: [30]}.                                    *)
C13_ExtractFirstSeenDistinct ==
    Extracted =>
        /\ DOMAIN entities = {type \in EntityTypes : Seen(type) # <<>>}
        /\ \A type \in DOMAIN entities :
              LET values == entities[type]
              IN  /\ values # <<>>
                  /\ Range(values) = Range(Seen(type))
                  /\ \A i, j \in 1..Len(values) :
                        i < j => FirstSeen(type, values[i]) < FirstSeen(type, values[j])
        /\ input_text = ExampleText =>
              entities = ("trace_id" :> << <<"a", "b", "c", "1", "2", "3">> >>)
                         @@ ("timeout" :> << <<"3", "0">> >>)

\* uid=7 user_id=7: two alternatives of user_id give the value 7, kept once
C13_Witness ==
    /\ Extracted
    /\ input_text = FragUid \o <<" ">> \o FragUserId7
    /\ Len(Seen("user_id")) = 2
    /\ entities["user_id"] = << <<"7">> >>
    /\ "trace_id" \notin DOMAIN entities

(* C19: the search query is a function of the bug input: any two runs of   *)
(* the service on the same bug build the same query, whatever order the     *)
(* set of error keywords is listed in.                                      *)
C19_SameInputSameQuery ==
    \A i, j \in 1..Len(search_queries) : search_queries[i] = search_queries[j]

(* C20: _build_search_query does not raise for any output of process, a    *)
(* parsed_stack of None included: the query is then the error message, the  *)
(* keywords and the user description.                                       *)
C20_BuildSearchQueryNeverRaises ==
    \A i \in 1..Len(search_queries) : search_queries[i].raised = "none"

----------------------------------------------------------------------------
(* merge_and_rerank: what is discarded, the order and what is written *)

\* two items are duplicates of each other as the claim words it
TrueDuplicates(a, b) ==
    \/ /\ a.content # <<>> /\ b.content # <<>>
       /\ SliceTo(a.content, KeyLen) = SliceTo(b.content, KeyLen)
    \/ /\ a.content = <<>> /\ b.content = <<>>
       /\ a.id = b.id

\* top_k cuts nothing off
NoTruncation == top_k >= Cardinality(InputRefs)

(* C21: merge_and_rerank discards an item only when an item it keeps is a  *)
(* true duplicate of it: both with content and the same first 100          *)
(* characters, or both without content and the same id.                    *)
C21_DiscardsOnlyTrueDuplicates ==
    (Merged /\ NoTruncation) =>
        \A r \in InputRefs \ Range(merged) :
            \E q \in Range(merged) : TrueDuplicates(raw[r], raw[q])

----------------------------------------------------------------------------
(* LogAggregator: filtering and sorting *)

\* the places of logs whose line holds the trace_id somewhere
MatchingPlaces ==
    {k \in 1..Len(logs) :
        \E i \in 1..Len(logs[k]) :
            /\ i + Len(trace_id.val) - 1 <= Len(logs[k])
            /\ \A j \in 1..Len(trace_id.val) : logs[k][i + j - 1] = trace_id.val[j]}

(* C22: for a present (non-empty) trace_id, aggregate_by_trace returns     *)
(* exactly the lines of logs that contain trace_id as a literal substring, *)
(* in their original relative order: no matching line is left out and no   *)
(* non-matching line is included.                                          *)
C22_ExactlyMatchingLinesInOrder ==
    (Aggregated /\ trace_id.tag = "value" /\ trace_id.val # <<>>) =>
        \E place \in [1..Len(log_result) -> 1..Len(logs)] :
            /\ \A i, j \in 1..Len(log_result) : i < j => place[i] < place[j]
            /\ \A i \in 1..Len(log_result) : log_result[i] = logs[place[i]]
            /\ {place[i] : i \in 1..Len(log_result)} = MatchingPlaces

\* a line that holds ab1 inside ab12 is kept, a line without ab1 is dropped
C22_Witness ==
    /\ Aggregated
    /\ trace_id = Some(TraceAb1)
    /\ Len(logs) >= 2
    /\ \E k \in 1..Len(logs) : k \notin MatchingPlaces
    /\ \E k \in MatchingPlaces : ~EndsWith(logs[k], TraceAb1)
    /\ Len(log_result) = Len(logs) - 1

Sorted == pc = "sorted"

\* the sort key of the i-th line returned
KeyAt(i) == ExtractTimestamp(log_result[i])

(* C23: sort_by_timestamp returns a permutation of its input, no line lost *)
(* or duplicated, ordered by non-decreasing extracted timestamp key: the   *)
(* lines with no extractable timestamp come first, and lines with equal    *)
(* keys keep their input relative order.                                   *)
C23_StablePermutationByKey ==
    Sorted =>
        /\ Len(log_result) = Len(logs)
        /\ \E place \in [1..Len(logs) -> 1..Len(logs)] :
              /\ \A i, j \in 1..Len(logs) : place[i] = place[j] => i = j
              /\ \A i \in 1..Len(logs) : log_result[i] = logs[place[i]]
              /\ \A i, j \in 1..Len(logs) :
                    (i < j /\ KeyAt(i) = KeyAt(j)) => place[i] < place[j]
        /\ \A i, j \in 1..Len(log_result) :
              i < j => /\ StrLessEq(KeyAt(i), KeyAt(j))
                       /\ KeyAt(j) = <<>> => KeyAt(i) = <<>>

\* two different lines without a timestamp came in and kept their order
C23_Witness ==
    /\ Sorted
    /\ \E i, j \in 1..Len(logs) :
          /\ i < j /\ logs[i] # logs[j]
          /\ ExtractTimestamp(logs[i]) = <<>> /\ ExtractTimestamp(logs[j]) = <<>>
          /\ \E a, b \in 1..Len(log_result) :
                a < b /\ log_result[a] = logs[i] /\ log_result[b] = logs[j]

\* the instant a timestamp denotes: year, month, day, hour, minute, second
MonthNames ==
    << <<"J", "a", "n">>, <<"F", "e", "b">>, <<"M", "a", "r">>, <<"A", "p", "r">>,
       <<"M", "a", "y">>, <<"J", "u", "n">>, <<"J", "u", "l">>, <<"A", "u", "g">>,
       <<"S", "e", "p">>, <<"O", "c", "t">>, <<"N", "o", "v">>, <<"D", "e", "c">> >>

RECURSIVE Number(_)
Number(digits) ==
    IF digits = <<>> THEN 0
    ELSE 10 * Number(SubSeq(digits, 1, Len(digits) - 1))
         + (CHOOSE d \in 0..9 : DigitChars[d + 1] = digits[Len(digits)])

Instant(ts) ==
    IF ts[5] = "-"
    THEN <<Number(SubSeq(ts, 1, 4)), Number(SubSeq(ts, 6, 7)),
           Number(SubSeq(ts, 9, 10)), Number(SubSeq(ts, 12, 13)),
           Number(SubSeq(ts, 15, 16)), Number(SubSeq(ts, 18, 19))>>
    ELSE <<Number(SubSeq(ts, 8, 11)),
           CHOOSE k \in 1..12 : MonthNames[k] = SubSeq(ts, 4, 6),
           Number(SubSeq(ts, 1, 2)), Number(SubSeq(ts, 13, 14)),
           Number(SubSeq(ts, 16, 17)), Number(SubSeq(ts, 19, 20))>>

\* instant a is not later than instant b
RECURSIVE NotLater(_, _)
NotLater(a, b) ==
    IF a = <<>> THEN TRUE
    ELSE IF Head(a) = Head(b) THEN NotLater(Tail(a), Tail(b))
    ELSE Head(a) < Head(b)

(* C24: sort_by_timestamp sorts the logs by timestamp: of two lines that   *)
(* both carry an extractable timestamp, in either format and with either   *)
(* separator, the line with the earlier instant comes before the line with *)
(* the later instant in the output.                                        *)
C24_EarlierInstantFirst ==
    Sorted =>
        \A i, j \in 1..Len(log_result) :
            (i < j /\ KeyAt(i) # <<>> /\ KeyAt(j) # <<>>)
                => NotLater(Instant(KeyAt(i)), Instant(KeyAt(j)))

----------------------------------------------------------------------------
(* The aggregated_logs of process *)

\* the related log lines given, none when the key is missing, None or []
RelatedLogs ==
    IF bug_input.related_logs.tag = "value" THEN bug_input.related_logs.val ELSE <<>>

\* the trace identifier of the error info, None when it has none
ErrorTraceId ==
    IF bug_input.trace_id.tag = "value" THEN bug_input.trace_id ELSE None

(* C25: when related log lines are present, the aggregated_logs of process *)
(* are sort_by_timestamp(aggregate_by_trace(related_logs, trace_id)) with  *)
(* trace_id the trace identifier of the error info: every line of          *)
(* aggregated_logs is a line of related_logs, and when trace_id is present *)
(* every line of aggregated_logs contains it; when no related logs are     *)
(* present aggregated_logs is empty.                                       *)
C25_AggregatedLogsFilteredThenSorted ==
    (Processed /\ processed.raised = "none") =>
        /\ RelatedLogs # <<>> =>
              processed.aggregated_logs =
                  SortByTimestamp(AggregateByTrace(RelatedLogs, ErrorTraceId))
        /\ Range(processed.aggregated_logs) \subseteq Range(RelatedLogs)
        /\ (ErrorTraceId.tag = "value" /\ ErrorTraceId.val # <<>>) =>
              \A i \in 1..Len(processed.aggregated_logs) :
                  Contains(processed.aggregated_logs[i], ErrorTraceId.val)
        /\ RelatedLogs = <<>> => processed.aggregated_logs = <<>>

\* of two related lines the one without the trace id was dropped
C25_Witness ==
    /\ Processed /\ processed.raised = "none"
    /\ ErrorTraceId = Some(TraceAb1)
    /\ Len(RelatedLogs) = 2
    /\ \E i \in 1..2 : ~Contains(RelatedLogs[i], TraceAb1)
    /\ Len(processed.aggregated_logs) = 1

----------------------------------------------------------------------------
(* The two grammars of StackParser.parse *)

\* the lines of the text that are frames of the first (Python) grammar, and
\* of the second (Java) grammar
FirstGrammarLines == SelectSeq(stack_trace, LAMBDA l : l.shape = "pyframe")
SecondGrammarLines == SelectSeq(stack_trace, LAMBDA l : l.shape = "javaframe")

\* the frames are those of the lines, one for one and in order
FramesAre(lines) ==
    /\ Len(parsed.frames) = Len(lines)
    /\ \A i \in 1..Len(lines) :
          /\ parsed.frames[i].file = lines[i].file
          /\ parsed.frames[i].line = lines[i].lineno
          /\ parsed.frames[i].function = lines[i].name

\* type and message are those of the first line for which matches holds, or
\* unknown and "Unable to parse exception" when there is none
ExceptionIs(matches(_), unknown) ==
    LET hits == SelectSeq(stack_trace, matches)
    IN  IF hits = <<>>
        THEN /\ parsed.exception_type = unknown
             /\ parsed.exception_message = UnableToParse
        ELSE /\ parsed.exception_type = hits[1].name
             /\ parsed.exception_message = hits[1].text

(* C26: parse applies the second frame grammar only when the first matches *)
(* zero frames, and the exception type and message come from the grammar   *)
(* that produced the frames: with first-grammar frames, or with no frame   *)
(* in either grammar, they are the first grammar's extraction              *)
(* ("UnknownError"/"Unable to parse exception" when no line matches); with *)
(* second-grammar frames they are the second grammar's extraction          *)
(* ("UnknownException"/"Unable to parse exception" when no line matches).  *)
C26_SecondGrammarOnlyWithoutFirst ==
    (Parsed /\ stack_trace # <<>>) =>
        IF FirstGrammarLines # <<>>
        THEN /\ FramesAre(FirstGrammarLines)
             /\ ExceptionIs(MatchesPythonException, UnknownErrorType)
        ELSE IF SecondGrammarLines # <<>>
        THEN /\ FramesAre(SecondGrammarLines)
             /\ ExceptionIs(MatchesJavaException, UnknownExceptionType)
        ELSE /\ parsed.frames = <<>>
             /\ ExceptionIs(MatchesPythonException, UnknownErrorType)

\* Java frames and a line "DeprecationWarning: old call", which only the
\* first grammar reads as an exception: the type is UnknownException
C26_Witness ==
    /\ Parsed
    /\ FirstGrammarLines = <<>>
    /\ SecondGrammarLines # <<>>
    /\ \E i \in 1..Len(stack_trace) :
          /\ MatchesPythonException(stack_trace[i])
          /\ ~MatchesJavaException(stack_trace[i])
    /\ parsed.exception_type = UnknownExceptionType
    /\ parsed.frames # <<>>

----------------------------------------------------------------------------
(* The keys of the mapping search returns *)

\* the keys of the mapping, in its order
KeysOf(res) == [i \in 1..Len(res) |-> res[i].source]

(* C27: the keys of the mapping search returns are exactly the enabled     *)
(* channels, also when an enabled channel fails, in the order code, case,  *)
(* log_pattern; the search of a disabled channel is never invoked; with    *)
(* all three channels disabled search returns the empty mapping, and       *)
(* merge_and_rerank of it is the empty list.                               *)
C27_KeysAreEnabledChannels ==
    /\ SearchReturned =>
          /\ KeysOf(results) = SelectSeq(ChannelOrder, LAMBDA c : enable[c])
          /\ EnabledChannels = {} =>
                /\ results = <<>>
                /\ \A k \in (0 - 1)..MaxTopK :
                      MergedRefs(heap, weights, results, k) = <<>>
    /\ \A i \in 1..Len(task_sources) : enable[task_sources[i]]
    /\ Len(task_call) = Len(task_sources)
    /\ Len(task_state) = Len(task_sources)

\* case is disabled and the search of code raised: the keys are code and
\* log_pattern
C27_Witness ==
    /\ pc = "search_returned"
    /\ enable = [c \in Sources |-> c # "case"]
    /\ index["code"].fails /\ ~index["log_pattern"].fails
    /\ KeysOf(results) = <<"code", "log_pattern">>
    /\ results[1].items = <<>> /\ results[2].items # <<>>

----------------------------------------------------------------------------
(* merge_and_rerank: the scores read after the call, and what it writes *)

(* C28: the list merge_and_rerank returns is non-increasing in the score   *)
(* field as read after the call: for consecutive returned items a, b,      *)
(* a.score >= b.score.                                                     *)
C28_ReturnedScoresNonIncreasing ==
    Merged =>
        \A i \in 1..(Len(merged) - 1) :
            heap[merged[i]].score >= heap[merged[i + 1]].score

\* the item of the lower raw score is returned first, with the higher score
C28_Witness ==
    /\ Merged /\ Len(merged) = 2
    /\ raw[merged[1]].score < raw[merged[2]].score
    /\ heap[merged[1]].score > heap[merged[2]].score

\* item r as it was, but for its score
SameButScore(r) == heap[r] = [raw[r] EXCEPT !.score = heap[r].score]

(* C29: merge_and_rerank changes nothing but score fields: the input       *)
(* mapping keeps its keys and each channel list its items in their order,  *)
(* and source, id, content and metadata of every item are unchanged; the   *)
(* score of an item discarded as a duplicate keeps its raw value, and the  *)
(* score of every item that survives deduplication is overwritten with its *)
(* weighted score, also when truncation to top_k leaves it out of the      *)
(* returned list.                                                          *)
C29_OnlyScoresOfSurvivorsWritten ==
    /\ [][(pc = "call_merge" /\ pc' = "merged") => results' = results]_vars
    /\ [](Merged =>
            /\ DOMAIN heap = DOMAIN raw
            /\ \A r \in InputRefs :
                  /\ SameButScore(r)
                  /\ IF IsFirstOfKey(r)
                     THEN heap[r].score * WeightDen = Product(r)
                     ELSE heap[r].score = raw[r].score)

\* top_k is 1: of two items with different keys the second is not returned,
\* and its score is the weighted one all the same
C29_Witness ==
    /\ Merged /\ top_k = 1 /\ Len(merged) = 1
    /\ \E r \in InputRefs \ Range(merged) :
          /\ IsFirstOfKey(r)
          /\ heap[r].score # raw[r].score
          /\ heap[r].score * WeightDen = Product(r)

----------------------------------------------------------------------------
(* The LLM calls of analyze *)

\* the call has ended with an Exception
CallFailed(call) == call.outcome.kind = "Exception"

\* the two calls ask the same thing
SameRequest(a, b) ==
    a.model = b.model /\ a.temperature = b.temperature /\ a.prompt = b.prompt

(* C30: analyze calls the LLM at most twice per analysis: first with       *)
(* response_format json_object; only if that call fails, once more without *)
(* response_format; if the second call also fails, analyze raises          *)
(* ConnectionError and no third call is made; if the first call succeeds   *)
(* no second call is made.                                                 *)
C30_AtMostTwoCalls ==
    /\ Len(llm_calls) <= 2
    /\ Len(llm_calls) >= 1 => llm_calls[1].response_format
    /\ Len(llm_calls) = 2 <=> (llm_calls # <<>> /\ CallFailed(llm_calls[1]))
    /\ Len(llm_calls) = 2 =>
          /\ ~llm_calls[2].response_format
          /\ SameRequest(llm_calls[1], llm_calls[2])
          /\ CallFailed(llm_calls[2]) =>
                pc = "analyze_raised" /\ analysis.raised = "ConnectionError"
    /\ (llm_calls # <<>> /\ llm_calls[1].outcome.kind = "response") =>
          Len(llm_calls) = 1

\* both calls failed and analyze raised ConnectionError
C30_Witness ==
    /\ Len(llm_calls) = 2
    /\ llm_calls[1].response_format /\ CallFailed(llm_calls[1])
    /\ ~llm_calls[2].response_format /\ CallFailed(llm_calls[2])
    /\ analysis.raised = "ConnectionError"

====
